---- MODULE Spec2Model ----
(***************************************************************************)
(* A model of loom-warp's work distribution engine.                        *)
(*                                                                         *)
(*   SpecCoord  the Coordinator (src/src/coordinator.ts): the in-process   *)
(*              assignment ledger, its per-assignment timeout timers and   *)
(*              the broker calls it leaves in flight at every await.       *)
(*   SpecQueue  the capability work queue (src/src/workqueue.ts) over a    *)
(*              JetStream work-queue stream with one durable consumer.     *)
(***************************************************************************)
EXTENDS Integers, Sequences, FiniteSets, Bags, TLC

(***************************************************************************)
(* Bounds of the model.                                                    *)
(***************************************************************************)
\* work item ids the Coordinator may mint
MaxItems == 1
\* config.maxAttempts is drawn from 0..MaxMaxAttempts
MaxMaxAttempts == 2
\* publishes of one work item id after which no further retry is started
MaxPublish == 3
\* Coordinator operations suspended on a broker call at the same time
MaxInFlight == 2
\* messages published to the work queues
MaxMessages == 2
\* config.assignmentTimeoutMs, in clock ticks
TimeoutTicks == 1
\* failed work items that can be dead-lettered
MaxDLQItems == 2
\* messages the DLQ stream ever receives
MaxDLQ == 2
\* GUIDs the registry can hold
MaxGuids == 2
\* the last instant of the wall clock
MaxClock == 1
\* messages one inbox stream can hold
MaxInbox == 2
\* entries listRegistryEntries returns to findWorkers
MaxListed == 3

(***************************************************************************)
(* Program constants.                                                      *)
(***************************************************************************)
DefaultPriority == 5
DefaultMaxDeliveryAttempts == 3
RetryPriority == 7
MinPriority == 1
MaxPriority == 10

Undefined == "undefined"
NoWorker == "null"
TimedOut == "Assignment timed out"

Items == 1..MaxItems
Workers == {"w1", "w2"}
ErrorMessages == {"boom"}
\* WorkRequest: priority absent, or out of the range validateWorkItem accepts
Requests ==
  {[taskId |-> "task", capability |-> <<"a", "-", "b">>],
   [taskId |-> "task", capability |-> <<"a", "-", "b">>, priority |-> 11]}
\* progress reported by a worker, before clamping
ProgressInputs == {-10, 150}
Handles == 1..(2 * MaxItems + 1)
Agents == {"a1", "a2"}
\* capabilities, as character sequences: two that differ in one punctuation mark
Capabilities == {<<"a", "-", "b">>, <<"a", "_", "b">>}
\* maxDeliveryAttempts a subscriber may ask for
MaxDeliverOptions == {1, 2}
\* how a handler answers a delivery
Answers == {"ack", "nak"}
\* the attempts field of a published payload
PayloadAttempts == {0}
Seqs == 1..MaxMessages

VARIABLES
  config,           \* Coordinator.config: maxAttempts, autoRetry
  assignments,      \* Coordinator.assignments: Map workItemId -> WorkAssignment
  timeoutCheckers,  \* Coordinator.timeoutCheckers: Map workItemId -> timer handle
  timers,           \* the runtime's timers: handle -> [item, armed, rem]
  ops,              \* bag of Coordinator operations suspended on an await
  published,        \* per work item id, the payloads the queue accepted
  dlq,              \* the DLQ stream: sequence of DLQ records
  dlqDedup,         \* message ids the DLQ stream remembers for deduplication
  lastCall,         \* the step taken last: operation, id, arguments, result
  streams,          \* JetStream streams: stream name -> set of subjects
  consumers,        \* durable consumer of a stream: stream name -> config
  wq,               \* stream name -> the messages the stream holds, in order
  subs,             \* open subscribeToWorkQueue subscriptions
  handling,         \* deliveries a subscriber's handler has not answered yet
  deliveries,       \* per message sequence number, every delivery made of it
  nextSeq,          \* sequence number of the next message published
  dlqExists,        \* whether the stream WORKQUEUE_DEADLETTER exists
  dlqDeleted,       \* sequence numbers of the DLQ messages deleted so far
  clock,            \* the wall clock that new Date() reads
  registry,         \* the agent-registry KV bucket: GUID -> RegistryEntry
  sess,             \* per server process: session state, timers, position
  inbox,            \* per GUID, the messages its inbox stream holds
  deregistered,     \* history: GUIDs deregistered and not registered since
  kvBucket,         \* the stream of the KV bucket agent-registry: who made it
  dlqMaxAge,        \* max_age the DLQ stream was created with
  bucketInstance,   \* per process, whether kv.ts holds a bucket handle
  creating,         \* per process, the create operation it is suspended in
  shutdownCalled    \* history: Coordinator.shutdown() has been called

coordVars == <<config, assignments, timeoutCheckers, timers, ops, published,
               dlq, dlqDedup>>
queueVars == <<streams, consumers, wq, subs, handling, deliveries, nextSeq>>

dlqVars == <<dlqExists, dlqDeleted>>
agentVars == <<clock, registry, sess, inbox, deregistered>>
createVars == <<kvBucket, dlqMaxAge, bucketInstance, creating>>
restVars == <<dlqVars, agentVars, createVars, shutdownCalled>>

vars == <<coordVars, queueVars, lastCall, restVars>>

(***************************************************************************)
(* Map helpers.                                                            *)
(***************************************************************************)
Range(f) == {f[x] : x \in DOMAIN f}
MinOf(S) == CHOOSE x \in S : \A y \in S : x <= y
MapDelete(f, k) == [x \in DOMAIN f \ {k} |-> f[x]]
MapSet(f, k, v) == [x \in DOMAIN f \cup {k} |-> IF x = k THEN v ELSE f[x]]
Min2(a, b) == IF a <= b THEN a ELSE b
Max2(a, b) == IF a >= b THEN a ELSE b

(***************************************************************************)
(* Timers.  T is the pair [ck |-> timeoutCheckers, tm |-> timers].         *)
(***************************************************************************)
Dead == [item |-> 0, armed |-> FALSE, rem |-> 0]
FreeHandles(T) == {h \in Handles : ~T.tm[h].armed /\ h \notin Range(T.ck)}

\* clearTimeout(handle)
clearTimeout(tm, h) == [tm EXCEPT ![h] = Dead]

\* setTimeout(callback, assignmentTimeoutMs): a fresh timer object
setTimeout(T, workItemId) ==
  LET h == MinOf(FreeHandles(T))
  IN  [ck |-> MapSet(T.ck, workItemId, h),
       tm |-> [T.tm EXCEPT ![h] = [item |-> workItemId, armed |-> TRUE,
                                   rem |-> TimeoutTicks]]]

clearTimeoutChecker(T, workItemId) ==
  IF workItemId \in DOMAIN T.ck
  THEN [ck |-> MapDelete(T.ck, workItemId),
        tm |-> clearTimeout(T.tm, T.ck[workItemId])]
  ELSE T

\* startTimeoutChecker without its leading clearTimeoutChecker
startTimeoutChecker_noClear(T, workItemId) == setTimeout(T, workItemId)

startTimeoutChecker(T, workItemId) ==
  setTimeout(clearTimeoutChecker(T, workItemId), workItemId)

resetTimeoutChecker(T, workItemId) == startTimeoutChecker(T, workItemId)

Now == [ck |-> timeoutCheckers, tm |-> timers]
SetTimers(T) == timeoutCheckers' = T.ck /\ timers' = T.tm

(***************************************************************************)
(* Operations in flight.                                                   *)
(***************************************************************************)
InFlight == BagCardinality(ops)
RetriesInFlight(id) ==
  LET S == {o \in BagToSet(ops) : o.kind = "retry" /\ o.id = id}
  IN  IF S = {} THEN 0 ELSE CopiesIn(CHOOSE o \in S : TRUE, ops)
Suspend(op) == ops (+) SetToBag({op})
Resume(op) == ops (-) SetToBag({op})

\* isValidUUID: the ids of ValidIds have the UUID v4 format, id 0 has not
ValidIds == 1..MaxItems
isValidUUID(uuid) == uuid \in ValidIds

validateWorkItem(item) ==
  /\ isValidUUID(item.id)
  /\ item.capability # <<>>
  /\ item.priority >= MinPriority /\ item.priority <= MaxPriority

\* the id is known outside the Coordinator once a queue message carries it
Known(id) == id \in DOMAIN assignments /\ Len(published[id]) > 0

(***************************************************************************)
(* Coordinator                                                             *)
(***************************************************************************)
QueueIdle ==
  /\ streams = <<>>
  /\ consumers = <<>>
  /\ wq = <<>>
  /\ subs = {}
  /\ handling = {}
  /\ deliveries = [s \in Seqs |-> <<>>]
  /\ nextSeq = 1

\* the DLQ stream was created at start-up and holds nothing
DLQIdle ==
  /\ dlqExists = TRUE
  /\ dlqDeleted = {}

\* no process has started: empty registry, no inbox stream
AgentIdle ==
  /\ clock = 0
  /\ registry = <<>>
  /\ sess = <<>>
  /\ inbox = <<>>
  /\ deregistered = {}

\* the registry bucket exists and no create operation is running
CreateIdle ==
  /\ kvBucket = "library"
  /\ dlqMaxAge = "default"
  /\ bucketInstance = <<>>
  /\ creating = <<>>

\* the Coordinator has not been shut down
NotShutDown == shutdownCalled = FALSE

RestIdle == DLQIdle /\ AgentIdle /\ CreateIdle /\ NotShutDown

CoordInit ==
  /\ QueueIdle
  /\ RestIdle
  /\ config \in [maxAttempts : 0..MaxMaxAttempts, autoRetry : BOOLEAN]
  /\ assignments = <<>>
  /\ timeoutCheckers = <<>>
  /\ timers = [h \in Handles |-> Dead]
  /\ ops = EmptyBag
  /\ published = [i \in Items |-> <<>>]
  /\ dlq = <<>>
  /\ dlqDedup = {}
  /\ lastCall = [op |-> "constructor", id |-> 0]

\* submitWork up to its first await (createWorkQueueStream)
submitWork(request) ==
  /\ DOMAIN assignments # Items
  /\ InFlight < MaxInFlight
  /\ LET workItemId == MinOf(Items \ DOMAIN assignments)
         workItem == [id |-> workItemId,
                      capability |-> request.capability,
                      priority |-> IF "priority" \in DOMAIN request
                                   THEN request.priority
                                   ELSE DefaultPriority,
                      attempts |-> 0]
     IN  /\ assignments' = MapSet(assignments, workItemId,
                                  [capability |-> request.capability,
                                   status |-> "pending", assignedTo |-> NoWorker,
                                   progress |-> 0, attempts |-> 0,
                                   maxAttempts |-> config.maxAttempts,
                                   error |-> Undefined])
         /\ ops' = Suspend([kind |-> "submit", stage |-> "create",
                            id |-> workItemId, item |-> workItem])
         /\ lastCall' = [op |-> "submitWork", id |-> workItemId]
  /\ UNCHANGED <<queueVars, restVars>>
  /\ UNCHANGED <<config, timeoutCheckers, timers, published, dlq, dlqDedup>>

\* createWorkQueueStream resolved: publishWorkItem validates, then awaits publish
submitWorkStreamReady(op) ==
  /\ op \in BagToSet(ops) /\ op.kind = "submit" /\ op.stage = "create"
  /\ IF validateWorkItem(op.item)
     THEN /\ ops' = Resume(op) (+) SetToBag({[op EXCEPT !.stage = "publish"]})
          /\ lastCall' = [op |-> "submitWork.created", id |-> op.id]
     ELSE /\ ops' = Resume(op)
          /\ lastCall' = [op |-> "submitWork.invalid", id |-> op.id]
  /\ UNCHANGED <<queueVars, restVars>>
  /\ UNCHANGED <<config, assignments, timeoutCheckers, timers, published, dlq,
                 dlqDedup>>

\* submitWork that returns without startTimeoutChecker
submitWorkPublished_noTimer(op) ==
  /\ op \in BagToSet(ops) /\ op.kind = "submit" /\ op.stage = "publish"
  /\ ops' = Resume(op)
  /\ published' = [published EXCEPT ![op.id] = Append(@, op.item)]
  /\ lastCall' = [op |-> "submitWork.return", id |-> op.id]
  /\ UNCHANGED <<queueVars, restVars>>
  /\ UNCHANGED <<config, assignments, timeoutCheckers, timers, dlq, dlqDedup>>

\* the queue accepted the work item: submitWork arms the timer and returns
submitWorkPublished(op) ==
  /\ op \in BagToSet(ops) /\ op.kind = "submit" /\ op.stage = "publish"
  /\ ops' = Resume(op)
  /\ published' = [published EXCEPT ![op.id] = Append(@, op.item)]
  /\ SetTimers(startTimeoutChecker(Now, op.id))
  /\ lastCall' = [op |-> "submitWork.return", id |-> op.id]
  /\ UNCHANGED <<queueVars, restVars>>
  /\ UNCHANGED <<config, assignments, dlq, dlqDedup>>

\* recordClaim without the status check
recordClaim_anyStatus(workItemId, workerGuid) ==
  /\ IF workItemId \notin DOMAIN assignments
     THEN /\ lastCall' = [op |-> "recordClaim", id |-> workItemId,
                          worker |-> workerGuid, ret |-> FALSE]
          /\ UNCHANGED <<assignments, timeoutCheckers, timers>>
     ELSE /\ assignments' = [assignments EXCEPT ![workItemId] =
                               [@ EXCEPT !.assignedTo = workerGuid,
                                         !.status = "assigned",
                                         !.attempts = @ + 1]]
          /\ SetTimers(resetTimeoutChecker(Now, workItemId))
          /\ lastCall' = [op |-> "recordClaim", id |-> workItemId,
                          worker |-> workerGuid, ret |-> TRUE]
  /\ UNCHANGED <<queueVars, restVars>>
  /\ UNCHANGED <<config, ops, published, dlq, dlqDedup>>

recordClaim(workItemId, workerGuid) ==
  /\ IF workItemId \notin DOMAIN assignments
     THEN /\ lastCall' = [op |-> "recordClaim", id |-> workItemId,
                          worker |-> workerGuid, ret |-> FALSE]
          /\ UNCHANGED <<assignments, timeoutCheckers, timers>>
     ELSE IF assignments[workItemId].status # "pending"
     THEN /\ lastCall' = [op |-> "recordClaim", id |-> workItemId,
                          worker |-> workerGuid, ret |-> FALSE]
          /\ UNCHANGED <<assignments, timeoutCheckers, timers>>
     ELSE /\ assignments' = [assignments EXCEPT ![workItemId] =
                               [@ EXCEPT !.assignedTo = workerGuid,
                                         !.status = "assigned",
                                         !.attempts = @ + 1]]
          /\ SetTimers(resetTimeoutChecker(Now, workItemId))
          /\ lastCall' = [op |-> "recordClaim", id |-> workItemId,
                          worker |-> workerGuid, ret |-> TRUE]
  /\ UNCHANGED <<queueVars, restVars>>
  /\ UNCHANGED <<config, ops, published, dlq, dlqDedup>>

recordProgress(workItemId, progress) ==
  /\ IF workItemId \notin DOMAIN assignments
     THEN /\ lastCall' = [op |-> "recordProgress", id |-> workItemId,
                          progress |-> progress, ret |-> FALSE]
          /\ UNCHANGED <<assignments, timeoutCheckers, timers>>
     ELSE IF assignments[workItemId].status \notin {"assigned", "in-progress"}
     THEN /\ lastCall' = [op |-> "recordProgress", id |-> workItemId,
                          progress |-> progress, ret |-> FALSE]
          /\ UNCHANGED <<assignments, timeoutCheckers, timers>>
     ELSE /\ assignments' = [assignments EXCEPT ![workItemId] =
                               [@ EXCEPT !.status = "in-progress",
                                         !.progress = Min2(100, Max2(0, progress))]]
          /\ SetTimers(resetTimeoutChecker(Now, workItemId))
          /\ lastCall' = [op |-> "recordProgress", id |-> workItemId,
                          progress |-> progress, ret |-> TRUE]
  /\ UNCHANGED <<queueVars, restVars>>
  /\ UNCHANGED <<config, ops, published, dlq, dlqDedup>>

recordCompletion(workItemId) ==
  /\ IF workItemId \notin DOMAIN assignments
     THEN /\ lastCall' = [op |-> "recordCompletion", id |-> workItemId,
                          ret |-> FALSE]
          /\ UNCHANGED <<assignments, timeoutCheckers, timers>>
     ELSE /\ assignments' = [assignments EXCEPT ![workItemId] =
                               [@ EXCEPT !.status = "completed",
                                         !.progress = 100]]
          /\ SetTimers(clearTimeoutChecker(Now, workItemId))
          /\ lastCall' = [op |-> "recordCompletion", id |-> workItemId,
                          ret |-> TRUE]
  /\ UNCHANGED <<queueVars, restVars>>
  /\ UNCHANGED <<config, ops, published, dlq, dlqDedup>>

\* the retry condition without the autoRetry switch
shouldRetry_ignoresAutoRetry(a, recoverable) ==
  recoverable /\ a.attempts < a.maxAttempts

\* the retry condition of recordError
shouldRetry(a, recoverable) ==
  recoverable /\ config.autoRetry /\ a.attempts < a.maxAttempts

\* recordError on a known assignment, up to its await; T is the timer state
\* it starts from
recordErrorKnown(workItemId, error, recoverable, T) ==
  LET a == assignments[workItemId]
  IN  IF shouldRetry(a, recoverable)
      THEN /\ assignments' = [assignments EXCEPT ![workItemId] =
                                [a EXCEPT !.error = error,
                                          !.status = "pending",
                                          !.assignedTo = NoWorker,
                                          !.progress = 0]]
           /\ SetTimers(T)
           /\ ops' = Suspend([kind |-> "retry", stage |-> "publish",
                              id |-> workItemId,
                              item |-> [id |-> workItemId,
                                        capability |-> a.capability,
                                        priority |-> RetryPriority,
                                        attempts |-> a.attempts]])
      ELSE /\ assignments' = [assignments EXCEPT ![workItemId] =
                                [a EXCEPT !.error = error,
                                          !.status = "failed"]]
           /\ SetTimers(clearTimeoutChecker(T, workItemId))
           /\ ops' = Suspend([kind |-> "dlq", stage |-> "publish",
                              id |-> workItemId,
                              item |-> [id |-> workItemId,
                                        capability |-> a.capability,
                                        reason |-> error,
                                        attempts |-> a.attempts,
                                        errors |-> <<error>>]])

\* a further publish of this id stays within the model's bound
MayPublish(workItemId) ==
  Len(published[workItemId]) + RetriesInFlight(workItemId) < MaxPublish

recordError(workItemId, error, recoverable) ==
  /\ IF workItemId \notin DOMAIN assignments
     THEN /\ lastCall' = [op |-> "recordError", id |-> workItemId, error |-> error,
                          recoverable |-> recoverable, ret |-> FALSE]
          /\ UNCHANGED <<assignments, timeoutCheckers, timers, ops>>
     ELSE /\ InFlight < MaxInFlight
          /\ MayPublish(workItemId)
          /\ recordErrorKnown(workItemId, error, recoverable, Now)
          /\ lastCall' = [op |-> "recordError", id |-> workItemId, error |-> error,
                          recoverable |-> recoverable, ret |-> TRUE]
  /\ UNCHANGED <<queueVars, restVars>>
  /\ UNCHANGED <<config, published, dlq, dlqDedup>>

\* recordError's publishWorkItem resolved: the timer is restarted
recordErrorRepublished(op) ==
  /\ op \in BagToSet(ops) /\ op.kind = "retry"
  /\ ops' = Resume(op)
  /\ published' = [published EXCEPT ![op.id] = Append(@, op.item)]
  /\ SetTimers(startTimeoutChecker(Now, op.id))
  /\ lastCall' = [op |-> "recordError.requeued", id |-> op.id]
  /\ UNCHANGED <<queueVars, restVars>>
  /\ UNCHANGED <<config, assignments, dlq, dlqDedup>>

\* moveToDeadLetter: js.publish(DLQ_SUBJECT, payload, {msgID: item.id})
moveToDeadLetter(record) ==
  IF record.id \in dlqDedup
  THEN UNCHANGED <<dlq, dlqDedup>>
  ELSE /\ dlq' = Append(dlq, record)
       /\ dlqDedup' = dlqDedup \cup {record.id}

\* recordError's moveToDeadLetter resolved
recordErrorDeadLettered(op) ==
  /\ op \in BagToSet(ops) /\ op.kind = "dlq"
  /\ ops' = Resume(op)
  /\ moveToDeadLetter(op.item)
  /\ lastCall' = [op |-> "recordError.deadLettered", id |-> op.id]
  /\ UNCHANGED <<queueVars, restVars>>
  /\ UNCHANGED <<config, assignments, timeoutCheckers, timers, published>>

\* the awaited broker call of a suspended operation raises
brokerRaises(op) ==
  /\ op \in BagToSet(ops)
  /\ ops' = Resume(op)
  /\ lastCall' = [op |-> "raise", id |-> op.id, kind |-> op.kind]
  /\ UNCHANGED <<queueVars, restVars>>
  /\ UNCHANGED <<config, assignments, timeoutCheckers, timers, published, dlq,
                 dlqDedup>>

\* the callback without its status check
timeoutCallback_anyStatus(h) ==
  /\ timers[h].armed /\ timers[h].rem = 0
  /\ LET workItemId == timers[h].item
         T == [ck |-> timeoutCheckers, tm |-> [timers EXCEPT ![h] = Dead]]
     IN  IF workItemId \in DOMAIN assignments
         THEN /\ InFlight < MaxInFlight
              /\ MayPublish(workItemId)
              /\ recordErrorKnown(workItemId, TimedOut, TRUE, T)
              /\ lastCall' = [op |-> "timeout", id |-> workItemId,
                              handle |-> h, acted |-> TRUE]
         ELSE /\ SetTimers(T)
              /\ lastCall' = [op |-> "timeout", id |-> workItemId,
                              handle |-> h, acted |-> FALSE]
              /\ UNCHANGED <<assignments, ops>>
  /\ UNCHANGED <<queueVars, restVars>>
  /\ UNCHANGED <<config, published, dlq, dlqDedup>>

\* the callback startTimeoutChecker hands to setTimeout
timeoutCallback(h) ==
  /\ timers[h].armed /\ timers[h].rem = 0
  /\ LET workItemId == timers[h].item
         T == [ck |-> timeoutCheckers, tm |-> [timers EXCEPT ![h] = Dead]]
     IN  IF /\ workItemId \in DOMAIN assignments
            /\ assignments[workItemId].status \in {"pending", "assigned"}
         THEN /\ InFlight < MaxInFlight
              /\ MayPublish(workItemId)
              /\ recordErrorKnown(workItemId, TimedOut, TRUE, T)
              /\ lastCall' = [op |-> "timeout", id |-> workItemId,
                              handle |-> h, acted |-> TRUE]
         ELSE /\ SetTimers(T)
              /\ lastCall' = [op |-> "timeout", id |-> workItemId,
                              handle |-> h, acted |-> FALSE]
              /\ UNCHANGED <<assignments, ops>>
  /\ UNCHANGED <<queueVars, restVars>>
  /\ UNCHANGED <<config, published, dlq, dlqDedup>>

\* time passes: no armed timer is due, every armed timer gets one tick closer
Tick ==
  /\ \E h \in Handles : timers[h].armed
  /\ \A h \in Handles : timers[h].armed => timers[h].rem > 0
  /\ timers' = [h \in Handles |->
                  IF timers[h].armed THEN [timers[h] EXCEPT !.rem = @ - 1]
                  ELSE timers[h]]
  /\ lastCall' = [op |-> "tick", id |-> 0]
  /\ UNCHANGED <<queueVars, restVars>>
  /\ UNCHANGED <<config, assignments, timeoutCheckers, ops, published, dlq,
                 dlqDedup>>

shutdown ==
  /\ timers' = [h \in Handles |->
                  IF h \in Range(timeoutCheckers) THEN Dead ELSE timers[h]]
  /\ timeoutCheckers' = <<>>
  /\ shutdownCalled' = TRUE
  /\ lastCall' = [op |-> "shutdown", id |-> 0]
  /\ UNCHANGED <<queueVars, dlqVars, agentVars, createVars>>
  /\ UNCHANGED <<config, assignments, ops, published, dlq, dlqDedup>>

\* ids a caller can pass: ones it has seen in the queue, and unknown ones
CallableIds == {i \in Items : i \notin DOMAIN assignments \/ Known(i)}

CoordNext ==
  \/ \E request \in Requests : submitWork(request)
  \/ \E op \in BagToSet(ops) : submitWorkStreamReady(op)
  \/ \E op \in BagToSet(ops) : submitWorkPublished(op)
  \/ \E i \in CallableIds, w \in Workers : recordClaim(i, w)
  \/ \E i \in CallableIds, p \in ProgressInputs : recordProgress(i, p)
  \/ \E i \in CallableIds : recordCompletion(i)
  \/ \E i \in CallableIds, e \in ErrorMessages, r \in BOOLEAN : recordError(i, e, r)
  \/ \E op \in BagToSet(ops) : recordErrorRepublished(op)
  \/ \E op \in BagToSet(ops) : recordErrorDeadLettered(op)
  \/ \E op \in BagToSet(ops) : brokerRaises(op)
  \/ \E h \in Handles : timeoutCallback(h)
  \/ Tick
  \/ shutdown

SpecCoord == CoordInit /\ [][CoordNext]_vars

(***************************************************************************)
(* Work queue                                                              *)
(***************************************************************************)
AlphaNumeric == {"a", "b", "A", "B"}
toUpperCase(c) == CASE c = "a" -> "A" [] c = "b" -> "B" [] OTHER -> c

\* capability.replace(/[^a-zA-Z0-9]/g, '_').toUpperCase()
sanitizeCapability(capability) ==
  [k \in 1..Len(capability) |->
     IF capability[k] \in AlphaNumeric THEN toUpperCase(capability[k]) ELSE "_"]

\* `WORKQUEUE_${sanitizeCapability(capability)}`; the consumer of a stream is
\* `worker-${sanitizeCapability(capability)}`, one per stream name
StreamName(capability) == <<"WORKQUEUE_">> \o sanitizeCapability(capability)

getWorkQueueSubject(capability) == <<"global.workqueue.">> \o capability

\* the streams that capture a subject
StreamsFor(subject) == {n \in DOMAIN streams : subject \in streams[n]}

\* positions in q of the messages a consumer with this config may hand out
Deliverable(q, consumer) ==
  {k \in 1..Len(q) : ~q[k].pending /\ q[k].deliveryCount < consumer.max_deliver}

RemoveSeq(q, seq) == SelectSeq(q, LAMBDA m : m.seq # seq)

\* the own properties of a WorkItem, in the order JSON.stringify writes them
WorkItemKeys == <<"id", "capability", "priority", "attempts">>

\* JSON.stringify(item): the text, one "key": value member per property
JSONstringify(item) ==
  [i \in 1..Len(WorkItemKeys) |-> <<WorkItemKeys[i], item[WorkItemKeys[i]]>>]

\* the value of the member of the text that has this key
Member(data, key) == data[CHOOSE i \in 1..Len(data) : data[i][1] = key][2]

\* whether JSON.parse accepts the text: every member is a key and a value
Parseable(data) == \A i \in 1..Len(data) : Len(data[i]) = 2

\* a parse that reads priority from the member after it
JSONparse_shifted(data) ==
  [id |-> Member(data, "id"), capability |-> Member(data, "capability"),
   priority |-> Member(data, "attempts"), attempts |-> Member(data, "attempts")]

\* JSON.parse(msg.data.toString()) as WorkItem
JSONparse(data) ==
  [id |-> Member(data, "id"), capability |-> Member(data, "capability"),
   priority |-> Member(data, "priority"), attempts |-> Member(data, "attempts")]

QueueInit ==
  /\ QueueIdle
  /\ RestIdle
  /\ config = [maxAttempts |-> 0, autoRetry |-> FALSE]
  /\ assignments = <<>>
  /\ timeoutCheckers = <<>>
  /\ timers = [h \in Handles |-> Dead]
  /\ ops = EmptyBag
  /\ published = [i \in Items |-> <<>>]
  /\ dlq = <<>>
  /\ dlqDedup = {}
  /\ lastCall = [op |-> "connect", id |-> 0]

\* the stream exists already, or is added with the capability's subject
createWorkQueueStream(capability) ==
  /\ StreamName(capability) \notin DOMAIN streams
  /\ streams' = MapSet(streams, StreamName(capability),
                       {getWorkQueueSubject(capability)})
  /\ wq' = MapSet(wq, StreamName(capability), <<>>)
  /\ UNCHANGED <<consumers, subs, handling, deliveries, nextSeq>>
  /\ UNCHANGED <<coordVars, lastCall, restVars>>

\* js.publish(subject, payload): appended to the stream that has the subject;
\* data is the payload, item the object it was made from
publishWorkItem(item) ==
  /\ nextSeq <= MaxMessages
  /\ validateWorkItem(item)
  /\ StreamsFor(getWorkQueueSubject(item.capability)) # {}
  /\ LET n == CHOOSE x \in StreamsFor(getWorkQueueSubject(item.capability)) : TRUE
     IN  wq' = [wq EXCEPT ![n] = Append(@, [seq |-> nextSeq, item |-> item,
                                            data |-> JSONstringify(item),
                                            deliveryCount |-> 0,
                                            pending |-> FALSE])]
  /\ nextSeq' = nextSeq + 1
  /\ UNCHANGED <<streams, consumers, subs, handling, deliveries>>
  /\ UNCHANGED <<coordVars, lastCall, restVars>>

\* jsm.consumers.info / jsm.consumers.add: the consumer is created only if absent
ensureConsumer(n, maxDeliver) ==
  IF n \in DOMAIN consumers THEN consumers
  ELSE MapSet(consumers, n, [max_deliver |-> maxDeliver])

\* the broker hands message k out: one more delivery of it, awaiting an ack
Delivered(q, k) ==
  [q EXCEPT ![k] = [@ EXCEPT !.deliveryCount = @ + 1, !.pending = TRUE]]

\* the attempts of the payload are kept
withDeliveryCount_fromPayload(item, deliveryCount) == item

\* the delivery count is added to the attempts of the payload
withDeliveryCount_addsToPayload(item, deliveryCount) ==
  [item EXCEPT !.attempts = @ + deliveryCount]

\* item.attempts = msg.info?.deliveryCount || 1
withDeliveryCount(item, deliveryCount) ==
  [item EXCEPT !.attempts = IF deliveryCount = 0 THEN 1 ELSE deliveryCount]

\* msg.ack(): the work-queue stream drops the message
ack(q, seq) == RemoveSeq(q, seq)

\* msg.nak(): the message is no longer awaiting an ack and may be redelivered
nak(q, seq) ==
  [k \in 1..Len(q) |-> IF q[k].seq = seq THEN [q[k] EXCEPT !.pending = FALSE]
                       ELSE q[k]]

\* claimWorkItem that returns the item without msg.ack()
claimWorkItem_noAck(agent, capability) ==
  LET n == StreamName(capability)
  IN  /\ n \in DOMAIN streams
      /\ consumers' = ensureConsumer(n, DefaultMaxDeliveryAttempts)
      /\ Deliverable(wq[n], consumers'[n]) # {}
      /\ LET k == MinOf(Deliverable(wq[n], consumers'[n]))
             msg == Delivered(wq[n], k)[k]
             item == withDeliveryCount(JSONparse(msg.data), msg.deliveryCount)
         IN  /\ wq' = [wq EXCEPT ![n] = Delivered(@, k)]
             /\ deliveries' = [deliveries EXCEPT ![msg.seq] =
                                 Append(@, [kind |-> "claim",
                                            attempts |-> item.attempts])]
      /\ UNCHANGED <<streams, subs, handling, nextSeq>>
      /\ UNCHANGED <<coordVars, lastCall, restVars>>

\* claimWorkItem on an existing stream whose fetch returns a message
claimWorkItem(agent, capability) ==
  LET n == StreamName(capability)
  IN  /\ n \in DOMAIN streams
      /\ consumers' = ensureConsumer(n, DefaultMaxDeliveryAttempts)
      /\ Deliverable(wq[n], consumers'[n]) # {}
      /\ LET k == MinOf(Deliverable(wq[n], consumers'[n]))
             msg == Delivered(wq[n], k)[k]
             item == withDeliveryCount(JSONparse(msg.data), msg.deliveryCount)
         IN  /\ wq' = [wq EXCEPT ![n] = ack(Delivered(@, k), msg.seq)]
             /\ deliveries' = [deliveries EXCEPT ![msg.seq] =
                                 Append(@, [kind |-> "claim",
                                            attempts |-> item.attempts])]
      /\ UNCHANGED <<streams, subs, handling, nextSeq>>
      /\ UNCHANGED <<coordVars, lastCall, restVars>>

\* claimWorkItem when the stream is missing or the fetch times out: null
claimWorkItemNull(agent, capability) ==
  LET n == StreamName(capability)
  IN  /\ IF n \notin DOMAIN streams
         THEN UNCHANGED consumers
         ELSE /\ consumers' = ensureConsumer(n, DefaultMaxDeliveryAttempts)
              /\ Deliverable(wq[n], consumers'[n]) = {}
      /\ UNCHANGED <<streams, wq, subs, handling, deliveries, nextSeq>>
      /\ UNCHANGED <<coordVars, lastCall, restVars>>

HasSub(agent) == \E s \in subs : s.agent = agent

subscribeToWorkQueue(agent, capability, maxDeliveryAttempts) ==
  LET n == StreamName(capability)
  IN  /\ ~HasSub(agent)
      /\ n \in DOMAIN streams
      /\ consumers' = ensureConsumer(n, maxDeliveryAttempts)
      /\ subs' = subs \cup {[agent |-> agent, stream |-> n,
                             maxDeliveryAttempts |-> maxDeliveryAttempts]}
      /\ UNCHANGED <<streams, wq, handling, deliveries, nextSeq>>
      /\ UNCHANGED <<coordVars, lastCall, restVars>>

\* one turn of the consume loop: the next message reaches the handler
consume(s) ==
  /\ s \in subs
  /\ \A d \in handling : d.agent # s.agent
  /\ Deliverable(wq[s.stream], consumers[s.stream]) # {}
  /\ LET n == s.stream
         k == MinOf(Deliverable(wq[n], consumers[n]))
         msg == Delivered(wq[n], k)[k]
         item == withDeliveryCount(JSONparse(msg.data), msg.deliveryCount)
     IN  /\ Parseable(msg.data)
         /\ wq' = [wq EXCEPT ![n] = Delivered(@, k)]
         /\ handling' = handling \cup {[agent |-> s.agent, stream |-> n,
                                        seq |-> msg.seq, item |-> item,
                                        maxDeliveryAttempts |->
                                          s.maxDeliveryAttempts]}
         /\ deliveries' = [deliveries EXCEPT ![msg.seq] =
                             Append(@, [kind |-> "handler",
                                        attempts |-> item.attempts])]
  /\ UNCHANGED <<streams, consumers, subs, nextSeq>>
  /\ UNCHANGED <<coordVars, lastCall, restVars>>

\* the handler answers the delivery with ack() or nak()
handlerReturns(d, answer) ==
  /\ d \in handling
  /\ handling' = handling \ {d}
  /\ wq' = [wq EXCEPT ![d.stream] =
              IF answer = "ack" THEN ack(@, d.seq) ELSE nak(@, d.seq)]
  /\ UNCHANGED <<streams, consumers, subs, deliveries, nextSeq>>
  /\ UNCHANGED <<coordVars, lastCall, restVars>>

\* ack_wait elapses for a delivered message nobody has answered
ackWaitElapses(n, seq) ==
  /\ n \in DOMAIN wq
  /\ \E k \in 1..Len(wq[n]) : wq[n][k].seq = seq /\ wq[n][k].pending
  /\ wq' = [wq EXCEPT ![n] = nak(@, seq)]
  /\ UNCHANGED <<streams, consumers, subs, handling, deliveries, nextSeq>>
  /\ UNCHANGED <<coordVars, lastCall, restVars>>

\* the function subscribeToWorkQueue returns: messages.close()
unsubscribe(s) ==
  /\ s \in subs
  /\ subs' = subs \ {s}
  /\ UNCHANGED <<streams, consumers, wq, handling, deliveries, nextSeq>>
  /\ UNCHANGED <<coordVars, lastCall, restVars>>

PublishInputs ==
  [id : {1}, capability : Capabilities, priority : {7}, attempts : PayloadAttempts]

QueueNext ==
  \/ \E c \in Capabilities : createWorkQueueStream(c)
  \/ \E item \in PublishInputs : publishWorkItem(item)
  \/ \E a \in Agents, c \in Capabilities : claimWorkItem(a, c)
  \/ \E a \in Agents, c \in Capabilities : claimWorkItemNull(a, c)
  \/ \E a \in Agents, c \in Capabilities, m \in MaxDeliverOptions :
       subscribeToWorkQueue(a, c, m)
  \/ \E s \in subs : consume(s)
  \/ \E d \in handling, answer \in Answers : handlerReturns(d, answer)
  \/ \E n \in DOMAIN wq, seq \in Seqs : ackWaitElapses(n, seq)
  \/ \E s \in subs : unsubscribe(s)

SpecQueue == QueueInit /\ [][QueueNext]_vars

(***************************************************************************)
(* Properties of the Coordinator                                           *)
(***************************************************************************)
StatusOf(i) == assignments[i].status
ArmedFor(tm, i) == {h \in Handles : tm[h].armed /\ tm[h].item = i}
OpsOf(i) == {o \in BagToSet(ops) : o.id = i}

\* C1: once an Assignment's status is completed or failed, no later
\* recordClaim, recordProgress, recordCompletion, recordError or timer expiry
\* changes its status.
C1_TerminalAbsorbing ==
  [][\A i \in DOMAIN assignments :
       StatusOf(i) \in {"completed", "failed"}
         => assignments'[i].status = StatusOf(i)]_vars

\* C2: the Coordinator publishes every submitted work item at most
\* maxAttempts + 1 times, also when no worker ever claims it and every
\* timeout timer expires.
C2_PublishesBounded ==
  \A i \in Items : Len(published[i]) <= config.maxAttempts + 1

\* C3: recordClaim(id, worker) returns false and leaves the Assignment (and
\* its timer) unchanged whenever id is unknown or the Assignment is not
\* pending; a claim of a pending Assignment returns true and makes the caller
\* its assignedTo; the Assignment is pending again only after an error, so
\* of several claims with no error in between exactly one returns true.
C3_ClaimOnlyPending ==
  [][/\ lastCall'.op = "recordClaim" =>
          LET i == lastCall'.id
          IN  IF i \in DOMAIN assignments /\ StatusOf(i) = "pending"
              THEN /\ lastCall'.ret = TRUE
                   /\ assignments'[i].status = "assigned"
                   /\ assignments'[i].assignedTo = lastCall'.worker
              ELSE /\ lastCall'.ret = FALSE
                   /\ UNCHANGED <<assignments, timeoutCheckers, timers, ops,
                                  published, dlq>>
     /\ \A i \in DOMAIN assignments :
          (StatusOf(i) # "pending" /\ assignments'[i].status = "pending")
            => lastCall'.op \in {"recordError", "timeout"}]_vars

\* a second worker's claim was rejected while the first one holds the item
C3_Witness ==
  /\ lastCall.op = "recordClaim" /\ lastCall.ret = FALSE
  /\ lastCall.id \in DOMAIN assignments
  /\ StatusOf(lastCall.id) = "assigned"
  /\ assignments[lastCall.id].assignedTo \in Workers \ {lastCall.worker}

\* C4: recordError(id, msg, recoverable) on a known Assignment resets it to
\* pending (assignedTo cleared, progress 0), republishes the item with
\* priority 7 and restarts the timer exactly when recoverable and autoRetry
\* and attempts < maxAttempts; in every other case it sets status failed,
\* clears the timer and hands the item to the DLQ with reason = msg and
\* errors = [msg].
C4_RecordErrorStep ==
  (lastCall'.op = "recordError" /\ lastCall'.ret = TRUE) =>
    LET i == lastCall'.id
        msg == lastCall'.error
        a == assignments[i]
        b == assignments'[i]
    IN  IF lastCall'.recoverable /\ config.autoRetry /\ a.attempts < a.maxAttempts
        THEN /\ b.status = "pending" /\ b.assignedTo = NoWorker /\ b.progress = 0
             /\ b.attempts = a.attempts /\ b.error = msg
             /\ ops' = ops (+) SetToBag({[kind |-> "retry", stage |-> "publish",
                                          id |-> i,
                                          item |-> [id |-> i,
                                                    capability |-> a.capability,
                                                    priority |-> 7,
                                                    attempts |-> a.attempts]]})
        ELSE /\ b.status = "failed" /\ b.error = msg
             /\ i \notin DOMAIN timeoutCheckers'
             /\ ArmedFor(timers', i) = {}
             /\ ops' = ops (+) SetToBag({[kind |-> "dlq", stage |-> "publish",
                                          id |-> i,
                                          item |-> [id |-> i,
                                                    capability |-> a.capability,
                                                    reason |-> msg,
                                                    attempts |-> a.attempts,
                                                    errors |-> <<msg>>]]})

C4_RequeuedStep ==
  lastCall'.op = "recordError.requeued" =>
    LET i == lastCall'.id
    IN  /\ Len(published'[i]) = Len(published[i]) + 1
        /\ published'[i][Len(published'[i])].priority = 7
        /\ i \in DOMAIN timeoutCheckers'
        /\ timers'[timeoutCheckers'[i]] =
             [item |-> i, armed |-> TRUE, rem |-> TimeoutTicks]

C4_DeadLetteredStep ==
  lastCall'.op = "recordError.deadLettered" =>
    LET i == lastCall'.id
    IN  \E o \in OpsOf(i) :
          /\ o.kind = "dlq" /\ o.item.errors = <<o.item.reason>>
          /\ ops' = ops (-) SetToBag({o})
          /\ IF i \in dlqDedup THEN dlq' = dlq
             ELSE dlq' = Append(dlq, o.item)

C4_RecordError ==
  [][C4_RecordErrorStep /\ C4_RequeuedStep /\ C4_DeadLetteredStep]_vars

\* both branches were taken: a retry has been republished at priority 7 and
\* a later error has put the item in the DLQ
C4_Witness ==
  \E i \in DOMAIN assignments :
    /\ Len(published[i]) >= 2 /\ published[i][2].priority = 7
    /\ StatusOf(i) = "failed"
    /\ \E k \in 1..Len(dlq) : dlq[k].id = i /\ dlq[k].errors = <<"boom">>

\* C5: every Assignment satisfies attempts <= maxAttempts in every reachable
\* state, for every configured maxAttempts.
C5_AttemptsBounded ==
  \A i \in DOMAIN assignments :
    assignments[i].attempts <= assignments[i].maxAttempts

\* C6: an Assignment's status changes only along pending -> assigned,
\* assigned -> in-progress, in-progress -> completed, and from pending,
\* assigned or in-progress to pending or failed.
AllowedEdges ==
  {<<"pending", "assigned">>, <<"assigned", "in-progress">>,
   <<"in-progress", "completed">>}
  \cup ({"pending", "assigned", "in-progress"} \X {"pending", "failed"})

C6_OnlyAllowedEdges ==
  [][\A i \in DOMAIN assignments :
       assignments'[i].status # StatusOf(i)
         => <<StatusOf(i), assignments'[i].status>> \in AllowedEdges]_vars

\* submitted, published once, never claimed, no error recorded, nothing in flight
Unclaimed(i) ==
  /\ i \in DOMAIN assignments
  /\ StatusOf(i) = "pending" /\ assignments[i].attempts = 0
  /\ assignments[i].error = Undefined
  /\ Len(published[i]) = 1 /\ OpsOf(i) = {}

C7_TimeoutStep ==
  \A i \in Items :
    (lastCall'.op = "timeout" /\ lastCall'.id = i) =>
      IF i \in DOMAIN assignments /\ StatusOf(i) \in {"pending", "assigned"}
      THEN /\ lastCall'.acted
           /\ assignments'[i].error = TimedOut
           /\ (Unclaimed(i) /\ config.autoRetry /\ config.maxAttempts >= 1)
                => /\ assignments'[i] = [assignments[i] EXCEPT !.error = TimedOut]
                   /\ ops' = ops (+) SetToBag({[kind |-> "retry", stage |-> "publish",
                                        id |-> i,
                                        item |-> [id |-> i,
                                                  capability |->
                                                    assignments[i].capability,
                                                  priority |-> 7,
                                                  attempts |-> 0]]})
      ELSE /\ ~lastCall'.acted
           /\ UNCHANGED <<assignments, timeoutCheckers, ops, published, dlq>>

C7_SecondPublish ==
  \A i \in Items :
    (/\ lastCall'.op = "recordError.requeued" /\ lastCall'.id = i
     /\ Len(published[i]) = 1)
      => Len(published'[i]) = 2

C8_OneTimer ==
  /\ \A i \in Items : Cardinality(ArmedFor(timers, i)) <= 1
  /\ \A h \in Handles :
       timers[h].armed => /\ timers[h].item \in DOMAIN timeoutCheckers
                          /\ timeoutCheckers[timers[h].item] = h

C8_ResetStep ==
  /\ (lastCall'.op \in {"recordClaim", "recordProgress"} /\ lastCall'.ret = TRUE) =>
       LET i == lastCall'.id
       IN  /\ i \in DOMAIN timeoutCheckers'
           /\ ArmedFor(timers', i) = {timeoutCheckers'[i]}
           /\ timers'[timeoutCheckers'[i]].rem = TimeoutTicks
  /\ lastCall'.op = "timeout" => ~timers'[lastCall'.handle].armed
  /\ (lastCall'.op = "recordCompletion" /\ lastCall'.ret = TRUE) =>
       ArmedFor(timers', lastCall'.id) = {}

C8_SlidingTimer == []C8_OneTimer /\ [][C8_ResetStep]_vars

\* a progress report has just re-armed the timer of an Assignment in progress
C8_Witness ==
  /\ lastCall.op = "recordProgress" /\ lastCall.ret = TRUE
  /\ StatusOf(lastCall.id) = "in-progress"
  /\ ArmedFor(timers, lastCall.id) # {}

(***************************************************************************)
(* Properties of the work queue                                            *)
(***************************************************************************)
InQueue(seq) == \E n \in DOMAIN wq : \E k \in 1..Len(wq[n]) : wq[n][k].seq = seq

\* C9: a message handed to a claimer is acked on receipt and gone for good:
\* the claim is the last delivery ever made of the message (so no second
\* claimer and no handler gets it afterwards) and no stream holds it any more,
\* whatever other claimers and subscribers of the capability do.
C9_ClaimRemoves ==
  \A seq \in Seqs :
    \A k \in 1..Len(deliveries[seq]) :
      deliveries[seq][k].kind = "claim"
        => k = Len(deliveries[seq]) /\ ~InQueue(seq)

\* a message a handler had nak'ed was then claimed, with a subscriber still
\* consuming from the queue and another message waiting in it
C9_Witness ==
  \E seq \in Seqs :
    /\ Len(deliveries[seq]) = 2
    /\ deliveries[seq][1].kind = "handler"
    /\ deliveries[seq][2] = [kind |-> "claim", attempts |-> 2]
    /\ subs # {}
    /\ \E other \in Seqs \ {seq} : InQueue(other)

\* C10 as stated: a handler subscribed with maxDeliveryAttempts N is never
\* given a delivery beyond the N-th.
C10_NeverBeyondN ==
  \A d \in handling : d.item.attempts <= d.maxDeliveryAttempts

\* C10 (amended): the k-th delivery of a message carries attempts = k, the
\* broker's delivery count and not the payload's attempts; a message is
\* delivered at most max_deliver times, max_deliver being that of the
\* durable consumer, which is N only when the subscribe call had to create
\* the consumer and which no later subscribe or claim changes.
C10_Counted ==
  /\ \A seq \in Seqs :
       \A k \in 1..Len(deliveries[seq]) : deliveries[seq][k].attempts = k
  /\ \A n \in DOMAIN wq :
       \A k \in 1..Len(wq[n]) :
         /\ wq[n][k].deliveryCount = Len(deliveries[wq[n][k].seq])
         /\ wq[n][k].deliveryCount > 0 =>
              /\ n \in DOMAIN consumers
              /\ wq[n][k].deliveryCount <= consumers[n].max_deliver
  /\ \A d \in handling : d.item.attempts <= consumers[d.stream].max_deliver

C10_ConsumerStep ==
  \A n \in DOMAIN consumers' :
    IF n \in DOMAIN consumers THEN consumers'[n] = consumers[n]
    ELSE \/ /\ subs' = subs
            /\ consumers'[n].max_deliver = DefaultMaxDeliveryAttempts
         \/ \E s \in subs' \ subs :
              /\ s.stream = n
              /\ consumers'[n].max_deliver = s.maxDeliveryAttempts

C10_DeliveryBudget == []C10_Counted /\ [][C10_ConsumerStep]_vars

\* a subscriber that asked for 2 created the consumer; a message was handed
\* to handlers twice, nak'ed twice, and now stays in the queue undeliverable
C10_Witness ==
  \E n \in DOMAIN wq :
    \E k \in 1..Len(wq[n]) :
      /\ n \in DOMAIN consumers /\ consumers[n].max_deliver = 2
      /\ \E s \in subs : s.stream = n /\ s.maxDeliveryAttempts = 2
      /\ wq[n][k].deliveryCount = 2 /\ ~wq[n][k].pending
      /\ deliveries[wq[n][k].seq] = <<[kind |-> "handler", attempts |-> 1],
                                      [kind |-> "handler", attempts |-> 2]>>
      /\ Deliverable(wq[n], consumers[n]) = {}

(***************************************************************************)
(* Dead letter queue                                                       *)
(***************************************************************************)
\* failed work items: one per id, each with its own capability
DLQIds == 1..MaxDLQItems
DLQCapabilities == {<<"a", "-", "b">>, <<"b">>}
FailedItem(id) ==
  [id |-> id,
   capability |-> IF id = 1 THEN <<"a", "-", "b">> ELSE <<"b">>,
   priority |-> DefaultPriority,
   attempts |-> DefaultMaxDeliveryAttempts]
Reasons == {"boom"}

DLQInit ==
  /\ QueueIdle
  /\ NotShutDown
  /\ AgentIdle
  /\ CreateIdle
  /\ dlqExists = FALSE
  /\ dlqDeleted = {}
  /\ config = [maxAttempts |-> 0, autoRetry |-> FALSE]
  /\ assignments = <<>>
  /\ timeoutCheckers = <<>>
  /\ timers = [h \in Handles |-> Dead]
  /\ ops = EmptyBag
  /\ published = [i \in Items |-> <<>>]
  /\ dlq = <<>>
  /\ dlqDedup = {}
  /\ lastCall = [op |-> "connect", id |-> 0]

\* what a DLQ operation leaves alone besides the DLQ and the work queues
DLQFrame ==
  UNCHANGED <<config, assignments, timeoutCheckers, timers, published,
              consumers, subs, handling, deliveries, agentVars, createVars,
              shutdownCalled>>

\* sequence numbers of the DLQ messages that still exist
LiveSeqs == {k \in 1..Len(dlq) : k \notin dlqDeleted}

\* a scan that also finds the messages deleted before
FindDLQ_ignoresDeleted(id) ==
  LET S == {k \in 1..Len(dlq) : dlq[k].id = id}
  IN  IF ~dlqExists \/ S = {} THEN 0 ELSE MinOf(S)

\* the scan `for seq = 1 .. last_seq`: the first message whose id matches, or 0
FindDLQ(id) ==
  LET S == {k \in LiveSeqs : dlq[k].id = id}
  IN  IF ~dlqExists \/ S = {} THEN 0 ELSE MinOf(S)

RECURSIVE ScanFrom(_)
ScanFrom(seq) ==
  IF seq > Len(dlq) THEN <<>>
  ELSE (IF seq \in LiveSeqs THEN <<dlq[seq]>> ELSE <<>>) \o ScanFrom(seq + 1)

\* listDeadLetterItems(): every stored record in sequence order
listDeadLetterItems == IF dlqExists THEN ScanFrom(1) ELSE <<>>

\* getDeadLetterItem(id): <<record>>, or <<>> for null
getDeadLetterItem(id) ==
  IF FindDLQ(id) = 0 THEN <<>> ELSE <<dlq[FindDLQ(id)]>>

\* createDLQStream when the stream does not exist yet
createDLQStream ==
  /\ ~dlqExists
  /\ dlqExists' = TRUE
  /\ lastCall' = [op |-> "createDLQStream", id |-> 0]
  /\ UNCHANGED <<dlq, dlqDedup, dlqDeleted, ops, streams, wq, nextSeq>>
  /\ DLQFrame

\* moveToDeadLetter(item, reason) as a call of its own
moveToDeadLetterCall(item, reason) ==
  /\ Len(dlq) < MaxDLQ
  /\ IF dlqExists
     THEN /\ moveToDeadLetter([id |-> item.id, workItem |-> item,
                               reason |-> reason, attempts |-> item.attempts,
                               errors |-> <<>>])
          /\ lastCall' = [op |-> "moveToDeadLetter", id |-> item.id,
                          ret |-> "ok"]
     ELSE /\ UNCHANGED <<dlq, dlqDedup>>
          /\ lastCall' = [op |-> "moveToDeadLetter", id |-> item.id,
                          ret |-> "failed"]
  /\ UNCHANGED <<dlqExists, dlqDeleted, ops, streams, wq, nextSeq>>
  /\ DLQFrame

\* the stream's duplicate window (the default: the stream config sets none)
\* has passed since the last publish: the message ids are forgotten
duplicateWindowElapses ==
  /\ dlqDedup # {}
  /\ dlqDedup' = {}
  /\ lastCall' = [op |-> "time", id |-> 0]
  /\ UNCHANGED <<dlq, dlqExists, dlqDeleted, ops, streams, wq, nextSeq>>
  /\ DLQFrame

\* resetAttempts
resetAttemptsOf(item, resetAttempts) ==
  IF resetAttempts THEN [item EXCEPT !.attempts = 0] ELSE item

\* retryDeadLetterItem up to its js.publish: stream info and the scan
retryDeadLetterItem(id, resetAttempts) ==
  /\ InFlight < MaxInFlight
  /\ IF FindDLQ(id) = 0
     THEN /\ lastCall' = [op |-> "retry", id |-> id, ret |-> "not found"]
          /\ UNCHANGED ops
     ELSE /\ ops' = Suspend([kind |-> "dlq.retry", stage |-> "publish",
                             id |-> id, seq |-> FindDLQ(id),
                             item |-> resetAttemptsOf(dlq[FindDLQ(id)].workItem,
                                                      resetAttempts)])
          /\ lastCall' = [op |-> "retry", id |-> id, ret |-> "found"]
  /\ UNCHANGED <<dlq, dlqDedup, dlqExists, dlqDeleted, streams, wq, nextSeq>>
  /\ DLQFrame

\* js.publish(`global.workqueue.${capability}`, payload) acknowledged
retryPublished(op) ==
  /\ op \in BagToSet(ops) /\ op.kind = "dlq.retry" /\ op.stage = "publish"
  /\ nextSeq <= MaxMessages
  /\ StreamsFor(<<"global.workqueue.">> \o op.item.capability) # {}
  /\ LET n == CHOOSE x \in StreamsFor(<<"global.workqueue.">>
                                        \o op.item.capability) : TRUE
     IN  wq' = [wq EXCEPT ![n] = Append(@, [seq |-> nextSeq, item |-> op.item,
                                            data |-> JSONstringify(op.item),
                                            deliveryCount |-> 0,
                                            pending |-> FALSE])]
  /\ nextSeq' = nextSeq + 1
  /\ ops' = Resume(op) (+) SetToBag({[kind |-> "dlq.retry", stage |-> "delete",
                                      id |-> op.id, seq |-> op.seq,
                                      item |-> op.item, pubSeq |-> nextSeq]})
  /\ lastCall' = [op |-> "retry.published", id |-> op.id]
  /\ UNCHANGED <<dlq, dlqDedup, dlqExists, dlqDeleted, streams>>
  /\ DLQFrame

\* a delete that purges the stream
deleteMessage_purge(seq) == dlqDeleted' = 1..Len(dlq)

\* jsm.streams.deleteMessage(DLQ_STREAM_NAME, seq) of a message that exists
deleteMessage(seq) == dlqDeleted' = dlqDeleted \cup {seq}

\* retryDeadLetterItem after its publish: the delete, then the return
retryDeleted(op) ==
  /\ op \in BagToSet(ops) /\ op.kind = "dlq.retry" /\ op.stage = "delete"
  /\ ops' = Resume(op)
  /\ IF op.seq \in LiveSeqs
     THEN /\ deleteMessage(op.seq)
          /\ lastCall' = [op |-> "retry.return", id |-> op.id, ret |-> "ok",
                          item |-> op.item]
     ELSE /\ UNCHANGED dlqDeleted
          /\ lastCall' = [op |-> "retry.return", id |-> op.id,
                          ret |-> "failed"]
  /\ UNCHANGED <<dlq, dlqDedup, dlqExists, streams, wq, nextSeq>>
  /\ DLQFrame

\* discardDeadLetterItem up to its deleteMessage
discardDeadLetterItem(id) ==
  /\ InFlight < MaxInFlight
  /\ IF FindDLQ(id) = 0
     THEN /\ lastCall' = [op |-> "discard", id |-> id, ret |-> "not found"]
          /\ UNCHANGED ops
     ELSE /\ ops' = Suspend([kind |-> "dlq.discard", stage |-> "delete",
                             id |-> id, seq |-> FindDLQ(id)])
          /\ lastCall' = [op |-> "discard", id |-> id, ret |-> "found"]
  /\ UNCHANGED <<dlq, dlqDedup, dlqExists, dlqDeleted, streams, wq, nextSeq>>
  /\ DLQFrame

discardDeleted(op) ==
  /\ op \in BagToSet(ops) /\ op.kind = "dlq.discard"
  /\ ops' = Resume(op)
  /\ IF op.seq \in LiveSeqs
     THEN /\ deleteMessage(op.seq)
          /\ lastCall' = [op |-> "discard.return", id |-> op.id, ret |-> "ok"]
     ELSE /\ UNCHANGED dlqDeleted
          /\ lastCall' = [op |-> "discard.return", id |-> op.id,
                          ret |-> "failed"]
  /\ UNCHANGED <<dlq, dlqDedup, dlqExists, streams, wq, nextSeq>>
  /\ DLQFrame

\* the broker call a retry or discard is waiting for raises
dlqCallRaises(op) ==
  /\ op \in BagToSet(ops) /\ op.kind \in {"dlq.retry", "dlq.discard"}
  /\ ops' = Resume(op)
  /\ lastCall' = [op |-> "dlq.raise", id |-> op.id, kind |-> op.kind,
                  stage |-> op.stage]
  /\ UNCHANGED <<dlq, dlqDedup, dlqExists, dlqDeleted, streams, wq, nextSeq>>
  /\ DLQFrame

DLQNext ==
  \/ createDLQStream
  \/ \E i \in DLQIds, r \in Reasons : moveToDeadLetterCall(FailedItem(i), r)
  \/ duplicateWindowElapses
  \/ \E i \in DLQIds, reset \in BOOLEAN : retryDeadLetterItem(i, reset)
  \/ \E op \in BagToSet(ops) : retryPublished(op)
  \/ \E op \in BagToSet(ops) : retryDeleted(op)
  \/ \E i \in DLQIds : discardDeadLetterItem(i)
  \/ \E op \in BagToSet(ops) : discardDeleted(op)
  \/ \E op \in BagToSet(ops) : dlqCallRaises(op)
  \/ \E c \in DLQCapabilities : createWorkQueueStream(c)
  \/ \E c \in DLQCapabilities : claimWorkItem("a1", c)

SpecDLQ == DLQInit /\ [][DLQNext]_vars

(***************************************************************************)
(* Properties of the dead letter queue                                     *)
(***************************************************************************)
\* the entries of listDeadLetterItems() that carry this id
ListedWith(id) ==
  {k \in 1..Len(listDeadLetterItems) : listDeadLetterItems[k].id = id}

\* C11: however often moveToDeadLetter is called for one work item id,
\* listDeadLetterItems never returns two entries with that id.
C11_OneRecordPerId ==
  \A i \in DLQIds : Cardinality(ListedWith(i)) <= 1

\* message seq was handed to a claimer
Claimed(seq) ==
  \E k \in 1..Len(deliveries[seq]) : deliveries[seq][k].kind = "claim"

\* the work queue of the capability holds, or a claimer got, the message the
\* retry published, and it carries the work item of the DLQ record
Requeued(op) ==
  /\ op.item.id = dlq[op.seq].id
  /\ op.item.capability = dlq[op.seq].workItem.capability
  /\ \/ Claimed(op.pubSeq)
     \/ /\ StreamName(op.item.capability) \in DOMAIN wq
        /\ \E k \in 1..Len(wq[StreamName(op.item.capability)]) :
             /\ wq[StreamName(op.item.capability)][k].seq = op.pubSeq
             /\ wq[StreamName(op.item.capability)][k].item = op.item

RetriesDeleting == {op \in BagToSet(ops) : op.kind = "dlq.retry" /\ op.stage = "delete"}

\* C12: while a retry is between its publish and its delete the work item is
\* in the work queue of its capability (or already with a claimer), so it is
\* never in neither place; and once the retry has returned successfully the
\* item is no longer in the DLQ: getDeadLetterItem(id) finds nothing.
C12_PublishedWhileDeleting == \A op \in RetriesDeleting : Requeued(op)

C12_RetryMovesItem ==
  /\ C12_PublishedWhileDeleting
  /\ (lastCall.op = "retry.return" /\ lastCall.ret = "ok")
       => getDeadLetterItem(lastCall.id) = <<>>

\* C13: a retry or discard of an id that no stored DLQ record carries, the
\* DLQ stream not existing included, fails with "not found", and then nothing
\* is published, nothing is deleted and no operation is left in flight; an id
\* that a stored record carries is never reported as not found.
C13_NotFoundStep ==
  (lastCall'.op \in {"retry", "discard"} /\ (lastCall' # lastCall \/ ops' # ops))
    => /\ lastCall'.ret = "not found"
            <=> (~dlqExists \/ \A k \in LiveSeqs : dlq[k].id # lastCall'.id)
       /\ lastCall'.ret = "not found"
            => UNCHANGED <<ops, wq, nextSeq, dlq, dlqDeleted, dlqDedup, dlqExists>>

C13_NotFound == [][C13_NotFoundStep]_vars

\* a retry failed with not found for an id whose record an earlier retry or
\* discard had deleted, while another id's record is stored
C13_Witness ==
  /\ lastCall.op = "retry" /\ lastCall.ret = "not found"
  /\ \E k \in dlqDeleted : dlq[k].id = lastCall.id
  /\ LiveSeqs # {}

\* C14: a work item that was dead-lettered with attempts = 3 and put back by
\* a retry is handed to the next claimer of its capability with attempts = 1,
\* with resetAttempts (payload attempts 0) as without (payload attempts 3):
\* a claim takes the oldest message of the capability's queue, and the
\* attempts it returns are the delivery count of that first delivery.
C14_PayloadAttempts ==
  \A n \in DOMAIN wq : \A k \in 1..Len(wq[n]) :
    /\ wq[n][k].item.attempts \in {0, DefaultMaxDeliveryAttempts}
    /\ n = StreamName(wq[n][k].item.capability)

C14_ClaimStep ==
  \A seq \in Seqs :
    deliveries'[seq] # deliveries[seq] =>
      \E n \in DOMAIN wq :
        /\ Len(wq[n]) > 0 /\ wq[n][1].seq = seq
        /\ wq'[n] = Tail(wq[n])
        /\ deliveries'[seq] = <<[kind |-> "claim", attempts |-> 1]>>

C14_RetriedClaimedAtOne == []C14_PayloadAttempts /\ [][C14_ClaimStep]_vars

\* the record with attempts = 3 was retried with resetAttempts, the retry has
\* returned, and the only message ever queued was claimed with attempts = 1
C14_Witness ==
  /\ lastCall.op = "retry.return" /\ lastCall.ret = "ok"
  /\ lastCall.item.attempts = 0
  /\ \E k \in dlqDeleted : dlq[k].id = lastCall.id /\ dlq[k].attempts = 3
  /\ nextSeq = 2
  /\ deliveries[1] = <<[kind |-> "claim", attempts |-> 1]>>

(***************************************************************************)
(* The agent registry: src/tools/registry.ts over src/kv.ts.  Each server  *)
(* process is one session with its own state, heartbeat timer and inbox    *)
(* subscription; all of them share the KV bucket agent-registry.  The      *)
(* sessions here run on one host in one project, so the handle is the      *)
(* only part of (handle, projectId, hostname) that differs.                *)
(***************************************************************************)
Sessions == {"s1", "s2"}
AgentHandles == {"dev1", "dev2"}
Guids == 1..MaxGuids
NoGuid == 0
Idle == [op |-> "idle"]

\* the server processes start: nothing registered, no timer, no subscription
AgentInit ==
  /\ QueueIdle
  /\ NotShutDown
  /\ DLQIdle
  /\ CreateIdle
  /\ config = [maxAttempts |-> 0, autoRetry |-> FALSE]
  /\ assignments = <<>>
  /\ timeoutCheckers = <<>>
  /\ timers = [h \in Handles |-> Dead]
  /\ ops = EmptyBag
  /\ published = [i \in Items |-> <<>>]
  /\ dlq = <<>>
  /\ dlqDedup = {}
  /\ lastCall = [op |-> "connect", id |-> 0]
  /\ clock = 0
  /\ registry = <<>>
  /\ inbox = <<>>
  /\ deregistered = {}
  /\ sess = [s \in Sessions |->
               [agentGuid |-> NoGuid, heartbeat |-> NoGuid,
                inboxSub |-> NoGuid, pc |-> Idle]]

\* what a registry handler leaves alone
AgentFrame ==
  UNCHANGED <<coordVars, queueVars, dlqVars, createVars, shutdownCalled>>

\* the GUIDs some handler is about to write and the ones already stored
TakenGuids ==
  DOMAIN registry \cup
  {sess[s].pc.entry.guid : s \in {t \in Sessions : sess[t].pc.op = "register"}}

\* randomUUID(): a GUID nobody holds
randomUUID == CHOOSE g \in Guids : g \notin TakenGuids /\ \A h \in Guids : h \notin TakenGuids => g <= h

\* createRegistryEntry(params): fresh GUID, online, no task, both timestamps now
createRegistryEntry(handle) ==
  [guid |-> randomUUID, handle |-> handle, status |-> "online",
   currentTaskCount |-> 0, registeredAt |-> clock, lastHeartbeat |-> clock]

Reusable_anyStatus(handle) ==
  {g \in DOMAIN registry : registry[g].handle = handle}

\* findReusableAgent's filter: stored entries of the same triple that are offline
Reusable(handle) ==
  {g \in DOMAIN registry :
     registry[g].handle = handle /\ registry[g].status = "offline"}

\* register_agent up to its write: look for an offline entry of the same
\* triple (a listing that fails counts as none found), then build the entry
\* under that GUID or under a fresh one
handleRegisterAgent(s, handle, listed) ==
  /\ sess[s].pc = Idle
  /\ Guids \ TakenGuids # {}
  /\ \E reuse \in (IF listed /\ Reusable(handle) # {}
                   THEN Reusable(handle) ELSE {NoGuid}) :
       LET fresh == createRegistryEntry(handle)
           entry == IF reuse # NoGuid THEN [fresh EXCEPT !.guid = reuse]
                    ELSE fresh
       IN  /\ sess' = [sess EXCEPT ![s].pc =
                         [op |-> "register", entry |-> entry,
                          listed |-> listed]]
  /\ UNCHANGED <<clock, registry, inbox, deregistered, lastCall>>
  /\ AgentFrame

\* createInboxStream(guid): the agent's inbox stream, created empty unless it
\* exists already
createInboxStream(guid) ==
  IF guid \in DOMAIN inbox THEN inbox ELSE (guid :> <<>>) @@ inbox

\* register_agent from its write on: store the entry, adopt it as the
\* session's identity, restart the heartbeat and the inbox subscription
registerStored(s) ==
  /\ sess[s].pc.op = "register"
  /\ LET entry == sess[s].pc.entry
     IN  /\ registry' = (entry.guid :> entry) @@ registry
         /\ sess' = [sess EXCEPT ![s] =
                       [agentGuid |-> entry.guid, heartbeat |-> entry.guid,
                        inboxSub |-> entry.guid, pc |-> Idle]]
         /\ inbox' = createInboxStream(entry.guid)
         /\ deregistered' = deregistered \ {entry.guid}
         /\ lastCall' = [op |-> "register.return", id |-> entry.guid,
                         reused |-> entry.guid \in DOMAIN registry]
  /\ UNCHANGED clock
  /\ AgentFrame

\* time passes
timePasses ==
  /\ clock < MaxClock
  /\ clock' = clock + 1
  /\ UNCHANGED <<registry, sess, inbox, deregistered, lastCall>>
  /\ AgentFrame

\* update_presence arguments: a status, a task count, or both
NoCount == 0 - 1
PresenceArgs ==
  {[status |-> "busy", currentTaskCount |-> 1],
   [status |-> "offline", currentTaskCount |-> NoCount]}

\* the entry update_presence writes: the one it read, stamped now, with the
\* provided fields replaced
presenceEntry(currentEntry, args) ==
  [currentEntry EXCEPT
     !.lastHeartbeat = clock,
     !.status = IF args.status # "none" THEN args.status ELSE @,
     !.currentTaskCount =
        IF args.currentTaskCount # NoCount THEN args.currentTaskCount ELSE @]

\* update_presence up to its write: refuse an unregistered session, read the
\* session's entry, build the updated entry
handleUpdatePresence(s, args) ==
  /\ sess[s].pc = Idle
  /\ LET guid == sess[s].agentGuid
     IN  IF guid = NoGuid \/ guid \notin DOMAIN registry
         THEN /\ lastCall' = [op |-> "presence.error", id |-> guid]
              /\ UNCHANGED sess
         ELSE /\ sess' = [sess EXCEPT ![s].pc =
                            [op |-> "presence", args |-> args,
                             began |-> clock,
                             entry |-> presenceEntry(registry[guid], args)]]
              /\ UNCHANGED lastCall
  /\ UNCHANGED <<clock, registry, inbox, deregistered>>
  /\ AgentFrame

\* update_presence from its write on: store the entry; going offline stops
\* the heartbeat and leaves the session registered
presenceStored(s) ==
  /\ sess[s].pc.op = "presence"
  /\ LET guid == sess[s].agentGuid
         pc   == sess[s].pc
     IN  /\ registry' = [registry EXCEPT ![guid] = pc.entry]
         /\ sess' = [sess EXCEPT
                       ![s].pc = Idle,
                       ![s].heartbeat =
                          IF pc.args.status = "offline" THEN NoGuid ELSE @]
         /\ lastCall' = [op |-> "presence.return", id |-> guid,
                         began |-> pc.began]
  /\ UNCHANGED <<clock, inbox, deregistered>>
  /\ AgentFrame

\* the heartbeat task of a session ticks: it re-writes lastHeartbeat of the
\* entry it was started for
heartbeatTick(s) ==
  /\ sess[s].heartbeat # NoGuid
  /\ sess[s].heartbeat \in DOMAIN registry
  /\ LET guid == sess[s].heartbeat
     IN  registry' = [registry EXCEPT ![guid].lastHeartbeat = clock]
  /\ UNCHANGED <<clock, sess, inbox, deregistered, lastCall>>
  /\ AgentFrame

\* deregister_agent up to its read: refuse an unregistered session, stop the
\* heartbeat, close the inbox subscription
handleDeregisterAgent(s) ==
  /\ sess[s].pc = Idle
  /\ LET guid == sess[s].agentGuid
     IN  IF guid = NoGuid
         THEN /\ lastCall' = [op |-> "deregister.error", id |-> guid]
              /\ UNCHANGED sess
         ELSE /\ sess' = [sess EXCEPT
                            ![s].heartbeat = NoGuid,
                            ![s].inboxSub = NoGuid,
                            ![s].pc = [op |-> "deregister", stage |-> "get",
                                       began |-> clock]]
              /\ UNCHANGED lastCall
  /\ UNCHANGED <<clock, registry, inbox, deregistered>>
  /\ AgentFrame

\* the entry deregister_agent writes: the one it read, with status offline
offlineEntry_fromTemplate(entry) ==
  [entry EXCEPT !.status = "offline", !.currentTaskCount = 0]

offlineEntry(entry) == [entry EXCEPT !.status = "offline"]

\* deregister_agent reads the session's entry; a missing entry ends the call
\* with an error and leaves the session registered
deregisterRead(s) ==
  /\ sess[s].pc.op = "deregister"
  /\ sess[s].pc.stage = "get"
  /\ LET guid == sess[s].agentGuid
     IN  IF guid \notin DOMAIN registry
         THEN /\ sess' = [sess EXCEPT ![s].pc = Idle]
              /\ lastCall' = [op |-> "deregister.error", id |-> guid]
         ELSE /\ sess' = [sess EXCEPT ![s].pc =
                            [op |-> "deregister", stage |-> "put",
                             began |-> sess[s].pc.began,
                             read |-> registry[guid],
                             entry |-> offlineEntry(registry[guid])]]
              /\ UNCHANGED lastCall
  /\ UNCHANGED <<clock, registry, inbox, deregistered>>
  /\ AgentFrame

\* deregister_agent from its write on: store the offline entry, clear the
\* session's identity
deregisterStored(s) ==
  /\ sess[s].pc.op = "deregister"
  /\ sess[s].pc.stage = "put"
  /\ LET guid == sess[s].agentGuid
         pc   == sess[s].pc
     IN  /\ registry' = [registry EXCEPT ![guid] = pc.entry]
         /\ sess' = [sess EXCEPT ![s].agentGuid = NoGuid, ![s].pc = Idle]
         /\ deregistered' = deregistered \cup {guid}
         /\ lastCall' = [op |-> "deregister.return", id |-> guid,
                         began |-> pc.began, read |-> pc.read]
  /\ UNCHANGED <<clock, inbox>>
  /\ AgentFrame

RegistryNext ==
  \/ \E s \in Sessions, h \in AgentHandles, listed \in BOOLEAN :
       handleRegisterAgent(s, h, listed)
  \/ \E s \in Sessions : registerStored(s)
  \/ \E s \in Sessions, args \in PresenceArgs : handleUpdatePresence(s, args)
  \/ \E s \in Sessions : presenceStored(s)
  \/ \E s \in Sessions : heartbeatTick(s)
  \/ \E s \in Sessions : handleDeregisterAgent(s)
  \/ \E s \in Sessions : deregisterRead(s)
  \/ \E s \in Sessions : deregisterStored(s)
  \/ timePasses

SpecRegistry == AgentInit /\ [][RegistryNext]_vars

(***************************************************************************)
(* Claims about the agent registry.                                        *)
(***************************************************************************)
\* session s takes the step of register_agent that picks the GUID
RegisterPicks(s) == sess[s].pc = Idle /\ sess'[s].pc.op = "register"
\* session s takes the step of register_agent that stores the entry
RegisterStores(s) == sess[s].pc.op = "register" /\ sess'[s].pc = Idle
\* the stored entries with this handle whose status is offline
OfflineWith(handle) ==
  {g \in DOMAIN registry :
     registry[g].handle = handle /\ registry[g].status = "offline"}

DeregisterStores(s) ==
  /\ sess[s].pc.op = "deregister"
  /\ sess[s].pc.stage = "put"
  /\ sess'[s].pc = Idle

\* C16: deregistration has stopped the session's heartbeat and inbox
\* subscription when it writes status offline, and from a successful
\* deregistration of a GUID until the next registration under that GUID no
\* heartbeat write lands on the entry and its stored status stays offline.
C16_QuietAfterDeregister ==
  [][/\ \A s \in Sessions :
          DeregisterStores(s) =>
            sess[s].heartbeat = NoGuid /\ sess[s].inboxSub = NoGuid
     /\ \A g \in deregistered \cap deregistered' :
          /\ registry'[g].status = "offline"
          /\ ~ \E s \in Sessions : sess[s].heartbeat = g /\ heartbeatTick(s)]_vars

\* session s takes the step of update_presence that stores the entry
PresenceStores(s) == sess[s].pc.op = "presence" /\ sess'[s].pc = Idle

\* C17: the entry a successful presence update stores, and the entry a
\* successful deregistration stores, carries a lastHeartbeat that is not
\* older than the moment the operation began.
C17_StampsLastHeartbeat ==
  [][\A s \in Sessions :
       (PresenceStores(s) \/ DeregisterStores(s)) =>
          registry'[sess[s].agentGuid].lastHeartbeat >= sess[s].pc.began]_vars

\* the presence half of C17 alone
C17_PresenceStamps ==
  [][\A s \in Sessions :
       PresenceStores(s) =>
          registry'[sess[s].agentGuid].lastHeartbeat >= sess[s].pc.began]_vars

\* the fields of a registry entry other than status and lastHeartbeat
Identity(entry) ==
  [guid |-> entry.guid, handle |-> entry.handle,
   currentTaskCount |-> entry.currentTaskCount,
   registeredAt |-> entry.registeredAt]

\* C18: no step removes a key of the registry, and the step of a
\* deregistration that stores its result stores, under the session's GUID, an
\* entry with status offline whose other fields, lastHeartbeat aside, are
\* those of the entry the deregistration read, which are the stored ones
\* whenever no other write landed in between.
C18_DeregisterKeepsEntry ==
  [][/\ DOMAIN registry \subseteq DOMAIN registry'
     /\ \A s \in Sessions :
          DeregisterStores(s) =>
            LET guid == sess[s].agentGuid
            IN  /\ guid \in DOMAIN registry'
                /\ registry'[guid].status = "offline"
                /\ Identity(registry'[guid]) = Identity(sess[s].pc.read)
                /\ registry[guid] = sess[s].pc.read =>
                     Identity(registry'[guid]) = Identity(registry[guid])]_vars

\* a deregistration has just stored the entry of a busy agent with a task
C18_Witness ==
  /\ lastCall.op = "deregister.return"
  /\ lastCall.read.status = "busy"
  /\ lastCall.read.currentTaskCount = 1
  /\ registry[lastCall.id].status = "offline"
  /\ registry[lastCall.id].currentTaskCount = 1

(***************************************************************************)
(* Direct messages: send_direct_message and read_direct_messages of        *)
(* src/tools/registry.ts over the per-agent inbox streams.  An inbox       *)
(* stream keeps every message it accepted; each message carries the        *)
(* recipient's status the sender saw and, as history, whether a read has   *)
(* examined it.                                                            *)
(***************************************************************************)
\* the cap on the limit of a read (100 in the program), which like it stays
\* below the number of messages an inbox can hold
MaxLimit == MaxInbox - 1
ReadLimits == 1..MaxLimit
\* senderGuid filter of a read: a GUID, or none
SenderFilters == Guids \cup {NoGuid}

\* send_direct_message: the sender must be registered and the recipient
\* must have a registry entry; the message is published to the recipient's
\* inbox subject whatever the recipient's status
handleSendDirectMessage(s, recipientGuid) ==
  /\ sess[s].pc = Idle
  /\ IF sess[s].agentGuid = NoGuid \/ recipientGuid \notin DOMAIN registry
        \/ recipientGuid \notin DOMAIN inbox
     THEN /\ lastCall' = [op |-> "send.error", id |-> recipientGuid]
          /\ UNCHANGED inbox
     ELSE /\ Len(inbox[recipientGuid]) < MaxInbox
          /\ inbox' = [inbox EXCEPT ![recipientGuid] =
                         Append(@, [senderGuid |-> sess[s].agentGuid,
                                    recipientStatus |->
                                       registry[recipientGuid].status,
                                    examined |-> FALSE])]
          /\ lastCall' = [op |-> "send.return", id |-> recipientGuid,
                          status |-> registry[recipientGuid].status]
  /\ UNCHANGED <<clock, registry, sess, deregistered>>
  /\ AgentFrame

\* js.consumers.get(streamName) without a consumer name: a new ordered
\* consumer, which delivers the stream from its first message
fetch(guid, max_messages) ==
  [k \in 1..Min2(max_messages, Len(inbox[guid])) |-> k]

\* the filters of read_direct_messages
matches(payload, senderGuid) ==
  senderGuid = NoGuid \/ payload.senderGuid = senderGuid

\* the loop over the fetched messages: matching ones are collected until
\* there are limit of them, the others are acknowledged and skipped
RECURSIVE readLoop(_, _, _, _, _, _, _)
readLoop(guid, fetched, i, limit, senderGuid, messages, examined) ==
  IF i > Len(fetched) \/ Len(messages) >= limit
  THEN [messages |-> messages, examined |-> examined]
  ELSE IF matches(inbox[guid][fetched[i]], senderGuid)
       THEN readLoop(guid, fetched, i + 1, limit, senderGuid,
                     Append(messages, fetched[i]), examined \cup {fetched[i]})
       ELSE readLoop(guid, fetched, i + 1, limit, senderGuid,
                     messages, examined \cup {fetched[i]})

\* what a read of this inbox returns and examines
readResult(guid, limit, senderGuid) ==
  readLoop(guid, fetch(guid, Min2(limit, MaxLimit) * 2), 1,
           Min2(limit, MaxLimit), senderGuid, <<>>, {})

\* read_direct_messages: the reader must be registered; messages are fetched
\* through a new consumer, filtered, acknowledged and returned
handleReadDirectMessages(s, limit, senderGuid) ==
  /\ sess[s].pc = Idle
  /\ LET guid == sess[s].agentGuid
     IN  IF guid = NoGuid \/ guid \notin DOMAIN inbox
         THEN /\ lastCall' = [op |-> "read.error", id |-> guid]
              /\ UNCHANGED inbox
         ELSE LET r == readResult(guid, limit, senderGuid)
              IN  /\ inbox' = [inbox EXCEPT ![guid] =
                                 [k \in 1..Len(@) |->
                                    IF k \in r.examined
                                    THEN [@[k] EXCEPT !.examined = TRUE]
                                    ELSE @[k]]]
                  /\ lastCall' = [op |-> "read.return", id |-> guid,
                                  messages |-> r.messages,
                                  acked |-> r.examined]
  /\ UNCHANGED <<clock, registry, sess, deregistered>>
  /\ AgentFrame

InboxNext ==
  \/ \E s \in Sessions, h \in AgentHandles, listed \in BOOLEAN :
       handleRegisterAgent(s, h, listed)
  \/ \E s \in Sessions : registerStored(s)
  \/ \E s \in Sessions : handleDeregisterAgent(s)
  \/ \E s \in Sessions : deregisterRead(s)
  \/ \E s \in Sessions : deregisterStored(s)
  \/ \E s \in Sessions, g \in Guids : handleSendDirectMessage(s, g)
  \/ \E s \in Sessions, limit \in ReadLimits, f \in SenderFilters :
       handleReadDirectMessages(s, limit, f)

SpecInbox == AgentInit /\ [][InboxNext]_vars

(***************************************************************************)
(* Claims about direct messages.                                           *)
(***************************************************************************)
\* this step is a read_direct_messages that returned
ReadReturns ==
  /\ lastCall'.op = "read.return"
  /\ <<lastCall, inbox>>' # <<lastCall, inbox>>

\* C19: every message a read examines, whether returned or filtered out, is
\* acknowledged, and no message examined by one read is delivered to a later
\* read of the same agent.
C19_ExaminedOnce ==
  [][ReadReturns =>
       \A k \in lastCall'.acked : ~inbox[lastCall'.id][k].examined]_vars

\* this step is a send_direct_message that returned successfully
SendReturns ==
  /\ lastCall'.op = "send.return"
  /\ <<lastCall, inbox>>' # <<lastCall, inbox>>

\* the positions of the messages of an inbox that no read has examined
Unread(guid) == {k \in 1..Len(inbox[guid]) : ~inbox[guid][k].examined}

\* some read the recipient can make returns the message at position k
Returnable(guid, k) ==
  \E limit \in ReadLimits, f \in SenderFilters :
    LET r == readResult(guid, limit, f)
    IN  \E i \in 1..Len(r.messages) : r.messages[i] = k

\* C20: a successful send appends exactly one message to the recipient's
\* inbox and to no other, whatever the recipient's status; no step removes
\* or replaces a message of an inbox; and the oldest message no read has
\* examined, when it was sent to an offline recipient, is returned by a read
\* the recipient can make.
C20_SendReachesRecipient ==
  [][/\ SendReturns =>
          /\ Len(inbox'[lastCall'.id]) = Len(inbox[lastCall'.id]) + 1
          /\ \A g \in DOMAIN inbox \ {lastCall'.id} : inbox'[g] = inbox[g]
     /\ \A g \in DOMAIN inbox :
          /\ Len(inbox'[g]) >= Len(inbox[g])
          /\ \A k \in 1..Len(inbox[g]) :
               inbox'[g][k].senderGuid = inbox[g][k].senderGuid
     /\ \A g \in DOMAIN inbox :
          \A k \in Unread(g) :
            (/\ \A j \in Unread(g) : k <= j
             /\ inbox[g][k].recipientStatus = "offline") => Returnable(g, k)]_vars

\* the first two parts of C20 alone: one message appended per send, none
\* ever removed or replaced
C20_SendAppendsOne ==
  [][/\ SendReturns =>
          /\ Len(inbox'[lastCall'.id]) = Len(inbox[lastCall'.id]) + 1
          /\ \A g \in DOMAIN inbox \ {lastCall'.id} : inbox'[g] = inbox[g]
     /\ \A g \in DOMAIN inbox :
          /\ Len(inbox'[g]) >= Len(inbox[g])
          /\ \A k \in 1..Len(inbox[g]) :
               inbox'[g][k].senderGuid = inbox[g][k].senderGuid]_vars

(***************************************************************************)
(* Concurrent creation: createWorkQueueStream, createDLQStream and         *)
(* initializeRegistry, each split at its awaits, run by two processes      *)
(* against one broker.                                                     *)
(***************************************************************************)
Processes == {"p1", "p2"}
NotCreating == [op |-> "none"]
\* ttlMs arguments of createDLQStream
DLQTtls == {"default", "short"}
\* error messages of the broker
StreamNotFound == "stream not found"
NameInUse == "stream name already in use with a different configuration"
\* error.message?.includes(part)
includes(message, part) ==
  <<message, part>> \in {<<StreamNotFound, "not found">>,
                         <<NameInUse, "already in use">>}

\* jsm.streams.add: the name is free, or taken with the same configuration
\* (answered with success), or taken with another one (answered with an error)
streamsAdd(taken, sameConfig) ==
  IF ~taken THEN "created" ELSE IF sameConfig THEN "ok" ELSE NameInUse

\* the catch of createWorkQueueStream and createDLQStream
catchCreate_rethrows(message) == "raised"

catchCreate(message) ==
  IF includes(message, "already in use") THEN "ok" ELSE "raised"

\* the catch around jsm.streams.add in initializeRegistry
catchBucketCreate(message) ==
  IF includes(message, "already in use") \/ includes(message, "exists")
  THEN "bind" ELSE "raised"

\* the catch around js.views.kv in initializeRegistry
catchBucketBind(message) ==
  IF includes(message, "not found") \/ includes(message, "does not exist")
  THEN "create" ELSE "raised"

CreateInit ==
  /\ QueueIdle
  /\ NotShutDown
  /\ AgentIdle
  /\ dlqExists = FALSE
  /\ dlqDeleted = {}
  /\ dlqMaxAge = "none"
  /\ kvBucket = "absent"
  /\ bucketInstance = [p \in Processes |-> FALSE]
  /\ creating = [p \in Processes |-> NotCreating]
  /\ config = [maxAttempts |-> 0, autoRetry |-> FALSE]
  /\ assignments = <<>>
  /\ timeoutCheckers = <<>>
  /\ timers = [h \in Handles |-> Dead]
  /\ ops = EmptyBag
  /\ published = [i \in Items |-> <<>>]
  /\ dlq = <<>>
  /\ dlqDedup = {}
  /\ lastCall = [op |-> "connect", id |-> 0]

\* what a create operation leaves alone besides the streams it may create
CreateFrame ==
  UNCHANGED <<coordVars, agentVars, consumers, subs, handling, deliveries,
              nextSeq, dlqDeleted, shutdownCalled>>

\* the value a create operation returns with
createReturn(p, operation, arg, ret, raced) ==
  [op |-> "create.return", id |-> 0, process |-> p, operation |-> operation,
   arg |-> arg, ret |-> ret, raced |-> raced]

\* createWorkQueueStream up to jsm.streams.add: an existing stream of that
\* name ends the call
createWorkQueueStreamInfo(p, capability) ==
  /\ creating[p] = NotCreating
  /\ IF StreamName(capability) \in DOMAIN streams
     THEN /\ lastCall' = createReturn(p, "createWorkQueueStream", capability,
                                      "ok", FALSE)
          /\ UNCHANGED creating
     ELSE /\ creating' = [creating EXCEPT ![p] =
                            [op |-> "createWorkQueueStream",
                             capability |-> capability]]
          /\ UNCHANGED lastCall
  /\ UNCHANGED <<streams, wq, dlqExists, dlqMaxAge, kvBucket, bucketInstance>>
  /\ CreateFrame

\* createWorkQueueStream from jsm.streams.add on
createWorkQueueStreamAdd(p) ==
  /\ creating[p].op = "createWorkQueueStream"
  /\ LET capability == creating[p].capability
         n      == StreamName(capability)
         taken  == n \in DOMAIN streams
         answer == streamsAdd(taken,
                              taken /\ streams[n] =
                                         {getWorkQueueSubject(capability)})
     IN  /\ IF answer = "created"
            THEN /\ streams' = MapSet(streams, n,
                                      {getWorkQueueSubject(capability)})
                 /\ wq' = MapSet(wq, n, <<>>)
            ELSE UNCHANGED <<streams, wq>>
         /\ lastCall' = createReturn(p, "createWorkQueueStream", capability,
                                     IF answer \in {"created", "ok"} THEN "ok"
                                     ELSE catchCreate(answer), taken)
  /\ creating' = [creating EXCEPT ![p] = NotCreating]
  /\ UNCHANGED <<dlqExists, dlqMaxAge, kvBucket, bucketInstance>>
  /\ CreateFrame

\* createDLQStream up to jsm.streams.add
createDLQStreamInfo(p, ttl) ==
  /\ creating[p] = NotCreating
  /\ IF dlqExists
     THEN /\ lastCall' = createReturn(p, "createDLQStream", ttl, "ok", FALSE)
          /\ UNCHANGED creating
     ELSE /\ creating' = [creating EXCEPT ![p] =
                            [op |-> "createDLQStream", ttl |-> ttl]]
          /\ UNCHANGED lastCall
  /\ UNCHANGED <<streams, wq, dlqExists, dlqMaxAge, kvBucket, bucketInstance>>
  /\ CreateFrame

\* createDLQStream from jsm.streams.add on
createDLQStreamAdd(p) ==
  /\ creating[p].op = "createDLQStream"
  /\ LET ttl    == creating[p].ttl
         answer == streamsAdd(dlqExists, dlqMaxAge = ttl)
     IN  /\ IF answer = "created"
            THEN dlqExists' = TRUE /\ dlqMaxAge' = ttl
            ELSE UNCHANGED <<dlqExists, dlqMaxAge>>
         /\ lastCall' = createReturn(p, "createDLQStream", ttl,
                                     IF answer \in {"created", "ok"} THEN "ok"
                                     ELSE catchCreate(answer), dlqExists)
  /\ creating' = [creating EXCEPT ![p] = NotCreating]
  /\ UNCHANGED <<streams, wq, kvBucket, bucketInstance>>
  /\ CreateFrame

\* initializeRegistry up to js.views.kv: a process that holds the bucket
\* returns at once
initializeRegistry(p) ==
  /\ creating[p] = NotCreating
  /\ IF bucketInstance[p]
     THEN /\ lastCall' = createReturn(p, "initializeRegistry", "agent-registry",
                                      "ok", FALSE)
          /\ UNCHANGED creating
     ELSE /\ creating' = [creating EXCEPT ![p] =
                            [op |-> "initializeRegistry", stage |-> "kv",
                             raced |-> FALSE]]
          /\ UNCHANGED lastCall
  /\ UNCHANGED <<streams, wq, dlqExists, dlqMaxAge, kvBucket, bucketInstance>>
  /\ CreateFrame

\* js.views.kv(bucketName) answers: it binds to the bucket's stream; when the
\* stream is absent the client library either creates it or reports that it
\* was not found
viewsKv(p, created) ==
  /\ creating[p].op = "initializeRegistry"
  /\ creating[p].stage \in {"kv", "bind"}
  /\ IF kvBucket # "absent" \/ created
     THEN /\ kvBucket' = IF kvBucket = "absent" THEN "library" ELSE kvBucket
          /\ bucketInstance' = [bucketInstance EXCEPT ![p] = TRUE]
          /\ creating' = [creating EXCEPT ![p] = NotCreating]
          /\ lastCall' = createReturn(p, "initializeRegistry",
                                      "agent-registry", "ok",
                                      creating[p].raced)
     ELSE /\ UNCHANGED <<kvBucket, bucketInstance>>
          /\ IF creating[p].stage = "kv"
                /\ catchBucketBind(StreamNotFound) = "create"
             THEN /\ creating' = [creating EXCEPT ![p].stage = "add"]
                  /\ UNCHANGED lastCall
             ELSE /\ creating' = [creating EXCEPT ![p] = NotCreating]
                  /\ lastCall' = createReturn(p, "initializeRegistry",
                                              "agent-registry", "raised",
                                              creating[p].raced)
  /\ UNCHANGED <<streams, wq, dlqExists, dlqMaxAge>>
  /\ CreateFrame

\* jsm.streams.add of the bucket's stream answers
bucketStreamAdd(p) ==
  /\ creating[p].op = "initializeRegistry"
  /\ creating[p].stage = "add"
  /\ LET taken  == kvBucket # "absent"
         answer == streamsAdd(taken, kvBucket = "manual")
         next   == IF answer \in {"created", "ok"} THEN "bind"
                   ELSE catchBucketCreate(answer)
     IN  /\ kvBucket' = IF answer = "created" THEN "manual" ELSE kvBucket
         /\ IF next = "bind"
            THEN /\ creating' = [creating EXCEPT ![p].stage = "bind",
                                                 ![p].raced = taken]
                 /\ UNCHANGED lastCall
            ELSE /\ creating' = [creating EXCEPT ![p] = NotCreating]
                 /\ lastCall' = createReturn(p, "initializeRegistry",
                                             "agent-registry", "raised", taken)
  /\ UNCHANGED <<streams, wq, dlqExists, dlqMaxAge, bucketInstance>>
  /\ CreateFrame

CreateNext ==
  \/ \E p \in Processes, c \in Capabilities : createWorkQueueStreamInfo(p, c)
  \/ \E p \in Processes : createWorkQueueStreamAdd(p)
  \/ \E p \in Processes, ttl \in DLQTtls : createDLQStreamInfo(p, ttl)
  \/ \E p \in Processes : createDLQStreamAdd(p)
  \/ \E p \in Processes : initializeRegistry(p)
  \/ \E p \in Processes, created \in BOOLEAN : viewsKv(p, created)
  \/ \E p \in Processes : bucketStreamAdd(p)

SpecCreate == CreateInit /\ [][CreateNext]_vars

(***************************************************************************)
(* Claims about concurrent creation.                                       *)
(***************************************************************************)
\* C21: every create operation, whatever the other process is doing, returns
\* without raising, and when it has returned the resource it names exists:
\* the one stream of that work queue name (capturing the capability's subject
\* unless it was made for another capability of the same stream name), the
\* DLQ stream, or the bucket's stream with the caller holding a handle to it.
C21_ConcurrentCreate ==
  lastCall.op = "create.return" =>
    /\ lastCall.ret = "ok"
    /\ lastCall.operation = "createWorkQueueStream" =>
         /\ StreamName(lastCall.arg) \in DOMAIN streams
         /\ StreamName(lastCall.arg) \in DOMAIN wq
         /\ (\A c \in Capabilities \ {lastCall.arg} :
               getWorkQueueSubject(c) \notin streams[StreamName(lastCall.arg)])
              => getWorkQueueSubject(lastCall.arg)
                   \in streams[StreamName(lastCall.arg)]
    /\ lastCall.operation = "createDLQStream" => dlqExists
    /\ lastCall.operation = "initializeRegistry" =>
         kvBucket # "absent" /\ bucketInstance[lastCall.process]

\* both processes found the stream absent and called jsm.streams.add; the
\* second add found the name taken, and both calls have returned
C21_Witness ==
  /\ lastCall.op = "create.return"
  /\ lastCall.raced
  /\ lastCall.ret = "ok"
  /\ \A p \in Processes : creating[p] = NotCreating

(***************************************************************************)
(* Routing by capability and the work item round trip                      *)
(***************************************************************************)
\* the item claimWorkItem(agent, capability) returns when its fetch yields a
\* message: the parsed data with attempts set from the delivery count
claimedItem(capability) ==
  LET n == StreamName(capability)
      consumer == ensureConsumer(n, DefaultMaxDeliveryAttempts)[n]
      k == MinOf(Deliverable(wq[n], consumer))
      msg == Delivered(wq[n], k)[k]
  IN  withDeliveryCount(JSONparse(msg.data), msg.deliveryCount)

\* C22: work is routed by exact capability match: a claim on capability c
\* never returns an item that was published under another capability.
C22_ExactCapabilityRouting ==
  [][\A a \in Agents, c \in Capabilities :
       claimWorkItem(a, c) => claimedItem(c).capability = c]_vars

\* the stream of capability c holds one message, published under c and not
\* delivered yet
SoleFresh(c) ==
  /\ StreamName(c) \in DOMAIN wq
  /\ Len(wq[StreamName(c)]) = 1
  /\ wq[StreamName(c)][1].deliveryCount = 0
  /\ ~wq[StreamName(c)][1].pending
  /\ wq[StreamName(c)][1].item.capability = c

Visibilities == {"private", "project-only", "user-only", "public"}
\* username is optional: absent, empty, or a name
Usernames == {Undefined, "", "alice", "bob"}
ProjectIds == {"1234567890abcdef", "fedcba0987654321"}

Entries ==
  [guid : {"g1"}, agentType : {"developer"}, handle : {"TestAgent"},
   hostname : {"host-1", "host-2"}, projectId : {"1234567890abcdef"},
   natsUrl : {"nats://localhost:4222"}, username : Usernames,
   capabilities : {<<"typescript">>}, scope : {"project"},
   visibility : Visibilities, status : {"online"}, currentTaskCount : {2},
   registeredAt : {"12:00"}, lastHeartbeat : {"12:05"}]

Requesters == [guid : {"g1", "g2"}, projectId : ProjectIds, username : Usernames]

\* a username that is present and not the empty string
NonEmpty(username) == username # Undefined /\ username # ""

\* user-only visibility that compares the usernames without asking for any
isVisibleTo_emptyUsernamesMatch(entry, requester) ==
  \/ requester.guid = entry.guid
  \/ CASE entry.visibility = "private" -> FALSE
       [] entry.visibility = "project-only" ->
            requester.projectId = entry.projectId
       [] entry.visibility = "user-only" -> entry.username = requester.username
       [] entry.visibility = "public" -> TRUE

\* the visibility predicate: the entry's own GUID always sees it
isVisibleTo(entry, requester) ==
  \/ requester.guid = entry.guid
  \/ CASE entry.visibility = "private" -> FALSE
       [] entry.visibility = "project-only" ->
            requester.projectId = entry.projectId
       [] entry.visibility = "user-only" ->
            /\ NonEmpty(entry.username) /\ NonEmpty(requester.username)
            /\ entry.username = requester.username
       [] entry.visibility = "public" -> TRUE

\* {}
EmptyObject == <<>>

\* the fields every redacted view has
AlwaysShown ==
  {"guid", "agentType", "handle", "capabilities", "scope", "status",
   "currentTaskCount", "lastHeartbeat"}

\* the fields of the entry a requester other than the entry itself is shown
ShownFields(entry, requester) ==
  AlwaysShown
    \cup (IF entry.visibility = "public"
             \/ requester.projectId = entry.projectId
          THEN {"hostname"} ELSE {})
    \cup (IF requester.projectId = entry.projectId
          THEN {"projectId", "natsUrl"} ELSE {})
    \cup (IF entry.visibility = "user-only"
             /\ entry.username = requester.username
          THEN {"username"} ELSE {})

\* a redaction that leaves the always shown fields in the view of a
\* requester who may not see the entry
redactEntry_leaksWhenHidden(entry, requester) ==
  IF requester.guid = entry.guid THEN entry
  ELSE IF ~isVisibleTo(entry, requester)
       THEN [f \in AlwaysShown |-> entry[f]]
       ELSE [f \in ShownFields(entry, requester) |-> entry[f]]

\* a redaction that shows the project's fields to every requester
redactEntry_showsProject(entry, requester) ==
  IF ~isVisibleTo(entry, requester) THEN EmptyObject
  ELSE IF requester.guid = entry.guid THEN entry
  ELSE [f \in ShownFields(entry, requester) \cup {"projectId", "natsUrl"}
          |-> entry[f]]

redactEntry(entry, requester) ==
  IF ~isVisibleTo(entry, requester) THEN EmptyObject
  ELSE IF requester.guid = entry.guid THEN entry
  ELSE [f \in ShownFields(entry, requester) |-> entry[f]]

RedactInit ==
  /\ QueueIdle
  /\ RestIdle
  /\ config = [maxAttempts |-> 0, autoRetry |-> FALSE]
  /\ assignments = <<>>
  /\ timeoutCheckers = <<>>
  /\ timers = [h \in Handles |-> Dead]
  /\ ops = EmptyBag
  /\ published = [i \in Items |-> <<>>]
  /\ dlq = <<>>
  /\ dlqDedup = {}
  /\ \E entry \in Entries, requester \in Requesters :
       lastCall = [op |-> "input", entry |-> entry, requester |-> requester]

\* isVisibleTo(entry, requester) is called and returns
callIsVisibleTo ==
  /\ lastCall.op = "input"
  /\ lastCall' = [op |-> "isVisibleTo", entry |-> lastCall.entry,
                  requester |-> lastCall.requester,
                  ret |-> isVisibleTo(lastCall.entry, lastCall.requester)]
  /\ UNCHANGED <<coordVars, queueVars, restVars>>

\* redactEntry(entry, requester) is called and returns
callRedactEntry ==
  /\ lastCall.op = "input"
  /\ lastCall' = [op |-> "redactEntry", entry |-> lastCall.entry,
                  requester |-> lastCall.requester,
                  ret |-> redactEntry(lastCall.entry, lastCall.requester)]
  /\ UNCHANGED <<coordVars, queueVars, restVars>>

RedactNext == callIsVisibleTo \/ callRedactEntry

SpecRedact == RedactInit /\ [][RedactNext]_vars

RedactReturns == lastCall.op = "redactEntry"
Self == lastCall.requester.guid = lastCall.entry.guid
SameProject == lastCall.requester.projectId = lastCall.entry.projectId

\* the relation of the claims between a requester and an entry, spelled out
Sees(entry, requester) ==
  \/ requester.guid = entry.guid
  \/ entry.visibility = "public"
  \/ entry.visibility = "project-only" /\ requester.projectId = entry.projectId
  \/ /\ entry.visibility = "user-only"
     /\ entry.username \notin {Undefined, ""}
     /\ requester.username \notin {Undefined, ""}
     /\ entry.username = requester.username

\* C24: redactEntry returns an empty object whenever the entry is not visible
\* to the requester, and every field of the entry unchanged when the
\* requester's guid is the entry's.
C24_RedactionInvariant ==
  RedactReturns =>
    /\ ~Sees(lastCall.entry, lastCall.requester) => DOMAIN lastCall.ret = {}
    /\ Self => /\ DOMAIN lastCall.ret = DOMAIN lastCall.entry
               /\ \A f \in DOMAIN lastCall.entry :
                    lastCall.ret[f] = lastCall.entry[f]

\* redactEntry has returned for a pair that is not visible, and for the
\* entry itself
C24_Witness ==
  /\ RedactReturns
  /\ \/ ~Sees(lastCall.entry, lastCall.requester)
     \/ Self /\ lastCall.entry.visibility = "private"

\* redactEntry has returned the view of a requester who sees the entry and
\* is not the entry itself
OthersView ==
  RedactReturns /\ Sees(lastCall.entry, lastCall.requester) /\ ~Self

UsernameShownRightly ==
  "username" \in DOMAIN lastCall.ret
    => /\ lastCall.entry.visibility = "user-only"
       /\ lastCall.entry.username = lastCall.requester.username

\* C25 as stated: for a requester who sees the entry and is not the entry
\* itself, the view contains hostname, projectId and brokerAddress only if
\* the projectIds are equal, and username only for a user-only entry whose
\* username matches the requester's.
C25_ProjectFieldsOnlyInProject ==
  OthersView =>
    /\ DOMAIN lastCall.ret \cap {"hostname", "projectId", "natsUrl"} # {}
         => SameProject
    /\ UsernameShownRightly

\* C25: for a requester who sees the entry and is not the entry itself, the
\* view contains projectId and brokerAddress only if the projectIds are
\* equal, hostname only if the projectIds are equal or the entry is public,
\* and username only for a user-only entry whose username matches the
\* requester's.
C25_RedactedView ==
  OthersView =>
    /\ DOMAIN lastCall.ret \cap {"projectId", "natsUrl"} # {} => SameProject
    /\ "hostname" \in DOMAIN lastCall.ret
         => SameProject \/ lastCall.entry.visibility = "public"
    /\ UsernameShownRightly

\* a requester of another project has been given its view of a public entry
\* and one of the same user its view of a user-only entry
C25_Witness ==
  /\ OthersView
  /\ ~SameProject
  /\ \/ lastCall.entry.visibility = "public"
     \/ "username" \in DOMAIN lastCall.ret

VisibleReturns == lastCall.op = "isVisibleTo"

\* C26: isVisibleTo(entry, requester) is true exactly when the requester's
\* guid is the entry's, or visibility is public, or visibility is
\* project-only and the projectIds are equal, or visibility is user-only and
\* both usernames are non-empty and equal.
C26_VisibilityMatrix ==
  VisibleReturns => (lastCall.ret <=> Sees(lastCall.entry, lastCall.requester))

\* isVisibleTo has answered for a user-only entry and a requester who is not
\* the entry, both without a username
C26_Witness ==
  /\ VisibleReturns
  /\ ~Self
  /\ lastCall.entry.visibility = "user-only"
  /\ lastCall.entry.username = lastCall.requester.username
  /\ lastCall.entry.username \in {Undefined, ""}
  /\ ~lastCall.ret

(***************************************************************************)
(* Coordinator.findWorkers                                                 *)
(***************************************************************************)
\* getRequester(): the coordinator's guid and projectId; no username configured
getRequester ==
  [guid |-> "g1", projectId |-> "1234567890abcdef", username |-> Undefined]

ListedGuids == <<"g1", "g2", "g3", "g4">>

\* what a listed entry may hold, its guid aside
ListedEntries ==
  [capabilities : {<<"typescript", "testing">>, <<"testing">>},
   status : {"online", "busy", "offline"}, currentTaskCount : {0, 2},
   visibility : {"private", "public"}, projectId : {"fedcba0987654321"},
   username : {Undefined}]

WithGuid(e, g) ==
  [guid |-> g, capabilities |-> e.capabilities, status |-> e.status,
   currentTaskCount |-> e.currentTaskCount, visibility |-> e.visibility,
   projectId |-> e.projectId, username |-> e.username]

\* a list listRegistryEntries may return: one entry per guid
RegistryList(f) == [k \in DOMAIN f |-> WithGuid(f[k], ListedGuids[k])]

\* the predicate of allEntries.filter
isWorker(entry, capability, requester) ==
  /\ capability \in Range(entry.capabilities)
  /\ entry.status # "offline"
  /\ isVisibleTo(entry, requester)
  /\ entry.guid # requester.guid

\* a comparison by task count alone
compareWorkers_byCountOnly(a, b) == a.currentTaskCount - b.currentTaskCount

\* the comparator of workers.sort
compareWorkers(a, b) ==
  IF a.status = "online" /\ b.status # "online" THEN -1
  ELSE IF b.status = "online" /\ a.status # "online" THEN 1
  ELSE a.currentTaskCount - b.currentTaskCount

\* x put into a sorted sequence, after the elements it does not precede
InsertSorted(sorted, x) ==
  LET before == {i \in 1..Len(sorted) : compareWorkers(x, sorted[i]) < 0}
      at == IF before = {} THEN Len(sorted) + 1 ELSE MinOf(before)
  IN  SubSeq(sorted, 1, at - 1) \o <<x>> \o SubSeq(sorted, at, Len(sorted))

RECURSIVE sortWorkers(_)
\* Array.prototype.sort with the comparator: a stable sort
sortWorkers(workers) ==
  IF workers = <<>> THEN <<>>
  ELSE InsertSorted(sortWorkers(SubSeq(workers, 1, Len(workers) - 1)),
                    workers[Len(workers)])

findWorkers(allEntries, capability) ==
  sortWorkers(SelectSeq(allEntries,
                        LAMBDA entry : isWorker(entry, capability, getRequester)))

FindInit ==
  /\ QueueIdle
  /\ RestIdle
  /\ config = [maxAttempts |-> 0, autoRetry |-> FALSE]
  /\ assignments = <<>>
  /\ timeoutCheckers = <<>>
  /\ timers = [h \in Handles |-> Dead]
  /\ ops = EmptyBag
  /\ published = [i \in Items |-> <<>>]
  /\ dlq = <<>>
  /\ dlqDedup = {}
  /\ lastCall = [op |-> "connect", id |-> 0]

\* findWorkers is called and its listRegistryEntries() returns
listRegistryEntries ==
  /\ lastCall.op = "connect"
  /\ \E n \in 0..MaxListed : \E f \in [1..n -> ListedEntries] :
       lastCall' = [op |-> "listed", allEntries |-> RegistryList(f)]
  /\ UNCHANGED <<coordVars, queueVars, restVars>>

\* findWorkers('typescript') filters and sorts what was listed, and returns
callFindWorkers ==
  /\ lastCall.op = "listed"
  /\ lastCall' = [op |-> "findWorkers", allEntries |-> lastCall.allEntries,
                  ret |-> findWorkers(lastCall.allEntries, "typescript")]
  /\ UNCHANGED <<coordVars, queueVars, restVars>>

FindNext == listRegistryEntries \/ callFindWorkers

SpecFind == FindInit /\ [][FindNext]_vars

FindReturns == lastCall.op = "findWorkers"

\* the entries the claim says are returned
Eligible ==
  {e \in Range(lastCall.allEntries) :
     /\ \E k \in 1..Len(e.capabilities) : e.capabilities[k] = "typescript"
     /\ e.status \in {"online", "busy"}
     /\ e.guid # "g1"
     /\ Sees(e, getRequester)}

\* C27: findWorkers(capability) returns exactly the entries that list the
\* capability, are not offline, are not the coordinator's own and are visible
\* to it, every online worker before every busy one and, within a status, by
\* ascending currentTaskCount.
C27_FindWorkers ==
  FindReturns =>
    /\ Range(lastCall.ret) = Eligible
    /\ Len(lastCall.ret) = Cardinality(Eligible)
    /\ \A i, j \in 1..Len(lastCall.ret) :
         i < j =>
           /\ ~(lastCall.ret[i].status = "busy"
                /\ lastCall.ret[j].status = "online")
           /\ lastCall.ret[i].status = lastCall.ret[j].status
                => lastCall.ret[i].currentTaskCount
                     <= lastCall.ret[j].currentTaskCount

\* three workers were eligible, listed as a loaded busy one, then an idle
\* busy one, then an online one, and one listed entry was left out
C27_Witness ==
  /\ FindReturns
  /\ Len(lastCall.ret) = 2
  /\ Len(lastCall.allEntries) = 3
  /\ lastCall.allEntries[2].status = "busy"
  /\ lastCall.allEntries[2].currentTaskCount = 2
  /\ lastCall.allEntries[3].status = "online"
  /\ lastCall.allEntries[3].currentTaskCount = 2
  /\ lastCall.ret[1] = lastCall.allEntries[3]

(***************************************************************************)
(* submitWork and shutdown                                                 *)
(***************************************************************************)
SubmitReturns == lastCall.op = "submitWork.return"

\* C28: after submitWork returns an id, an Assignment for the id exists with
\* status pending, attempts 0 and assignedTo null, exactly one work item with
\* the id has been published to the capability's queue, and a timeout timer
\* is armed for it.
C28_SubmitPostcondition ==
  SubmitReturns =>
    LET id == lastCall.id
    IN  /\ id \in DOMAIN assignments
        /\ assignments[id].status = "pending"
        /\ assignments[id].attempts = 0
        /\ assignments[id].assignedTo = NoWorker
        /\ Len(published[id]) = 1
        /\ published[id][1].id = id
        /\ published[id][1].capability = assignments[id].capability
        /\ id \in DOMAIN timeoutCheckers
        /\ timers[timeoutCheckers[id]].armed
        /\ timers[timeoutCheckers[id]].item = id
        /\ ArmedFor(timers, id) = {timeoutCheckers[id]}

\* submitWork has returned: its item is in the queue and a timer runs for it
C28_Witness ==
  /\ SubmitReturns
  /\ Len(published[lastCall.id]) = 1
  /\ \E h \in Handles : timers[h].armed /\ timers[h].item = lastCall.id

\* C29: once shutdown() has been called no assignment timeout fires
\* afterwards, whatever operations were in flight, and calling shutdown()
\* again has no effect.
C29_QuietAfterShutdown ==
  [][/\ shutdownCalled => \A h \in Handles : ~timeoutCallback(h)
     /\ lastCall.op = "shutdown" /\ shutdown
          => UNCHANGED <<assignments, timeoutCheckers, timers, ops, published>>
    ]_vars

\* shutdown() leaves no timer armed and no timeout checker registered
C29_ShutdownCancelsOutstanding ==
  lastCall.op = "shutdown"
    => /\ timeoutCheckers = <<>>
       /\ \A id \in DOMAIN assignments : ArmedFor(timers, id) = {}

(***************************************************************************)
(* subscribeToWorkQueue: handler exceptions and payloads that do not parse *)
(***************************************************************************)
\* a payload JSON.parse rejects
Malformed == <<<<"{">>>>

\* what a handler did with the message before it threw
Answered == {"none", "ack", "nak"}

\* some client publishes a payload that is not JSON to the queue's subject
publishMalformed(capability) ==
  /\ nextSeq <= MaxMessages
  /\ StreamsFor(getWorkQueueSubject(capability)) # {}
  /\ LET n == CHOOSE x \in StreamsFor(getWorkQueueSubject(capability)) : TRUE
     IN  wq' = [wq EXCEPT ![n] =
                  Append(@, [seq |-> nextSeq,
                             item |-> [id |-> 0, capability |-> capability,
                                       priority |-> 0, attempts |-> 0],
                             data |-> Malformed, deliveryCount |-> 0,
                             pending |-> FALSE])]
  /\ nextSeq' = nextSeq + 1
  /\ UNCHANGED <<streams, consumers, subs, handling, deliveries>>
  /\ UNCHANGED <<coordVars, lastCall, restVars>>

\* one turn of the consume loop on a message whose JSON.parse throws: the
\* catch logs and calls msg.ack(), the handler is not called
consumeUnparsable(s) ==
  /\ s \in subs
  /\ \A d \in handling : d.agent # s.agent
  /\ Deliverable(wq[s.stream], consumers[s.stream]) # {}
  /\ LET n == s.stream
         k == MinOf(Deliverable(wq[n], consumers[n]))
         msg == Delivered(wq[n], k)[k]
     IN  /\ ~Parseable(msg.data)
         /\ wq' = [wq EXCEPT ![n] = ack(Delivered(@, k), msg.seq)]
         /\ deliveries' = [deliveries EXCEPT ![msg.seq] =
                             Append(@, [kind |-> "unparsable",
                                        attempts |-> msg.deliveryCount])]
  /\ UNCHANGED <<streams, consumers, subs, handling, nextSeq>>
  /\ UNCHANGED <<coordVars, lastCall, restVars>>

\* the message after the handler has answered it and the catch has called
\* msg.ack(): a message answers once, so after the handler's ack() or nak()
\* the catch's ack() is either dropped by the client or reaches the broker
\* after the nak()
afterThrow(q, seq, answered, dropped) ==
  IF answered = "nak" /\ dropped THEN nak(q, seq) ELSE ack(q, seq)

\* the handler throws: the catch logs, calls msg.ack() and the loop goes on
handlerThrows(d, answered, dropped) ==
  /\ d \in handling
  /\ handling' = handling \ {d}
  /\ wq' = [wq EXCEPT ![d.stream] = afterThrow(@, d.seq, answered, dropped)]
  /\ UNCHANGED <<streams, consumers, subs, deliveries, nextSeq>>
  /\ UNCHANGED <<coordVars, lastCall, restVars>>

\* the capability the subscribers of this specification work on
SubscribedCapability == <<"a", "-", "b">>

SubscribeNext ==
  \/ createWorkQueueStream(SubscribedCapability)
  \/ \E item \in PublishInputs :
       item.capability = SubscribedCapability /\ publishWorkItem(item)
  \/ publishMalformed(SubscribedCapability)
  \/ \E a \in Agents, m \in MaxDeliverOptions :
       subscribeToWorkQueue(a, SubscribedCapability, m)
  \/ \E s \in subs : consume(s)
  \/ \E s \in subs : consumeUnparsable(s)
  \/ \E d \in handling, answer \in Answers : handlerReturns(d, answer)
  \/ \E d \in handling, answered \in Answered, dropped \in BOOLEAN :
       handlerThrows(d, answered, dropped)
  \/ \E n \in DOMAIN wq, seq \in Seqs : ackWaitElapses(n, seq)
  \/ \E s \in subs : unsubscribe(s)

SpecSubscribe == QueueInit /\ [][SubscribeNext]_vars

\* the message the next turn of subscription s takes
NextFor(s) ==
  wq[s.stream][MinOf(Deliverable(wq[s.stream], consumers[s.stream]))]

\* the queue still holds message seq after the step
StillQueued(seq) ==
  \E n \in DOMAIN wq' : \E k \in 1..Len(wq'[n]) : wq'[n][k].seq = seq

\* C30: when the handler throws or the payload cannot be parsed, the message
\* is acked and never redelivered (it has left the queue), the error does not
\* end the subscription and its loop is free to take the following message.
C30_ErrorsAreAcked ==
  [][/\ \A d \in handling, answered \in Answered, dropped \in BOOLEAN :
          handlerThrows(d, answered, dropped)
            => /\ ~StillQueued(d.seq)
               /\ subs' = subs
               /\ \A e \in handling' : e.agent # d.agent
     /\ \A s \in subs :
          consumeUnparsable(s)
            => /\ ~StillQueued(NextFor(s).seq)
               /\ subs' = subs
               /\ handling' = handling]_vars

(***************************************************************************)
(* Discard and retry of dead letter records                                *)
(***************************************************************************)
\* a step of discardDeadLetterItem: its scan, or its delete and return
DiscardStep ==
  /\ lastCall'.op \in {"discard", "discard.return"}
  /\ lastCall' # lastCall \/ ops' # ops

\* C31: discard(id) removes exactly one DLQ record, which carries that id,
\* and changes nothing else: no work queue receives a message and every other
\* DLQ record remains.
C31_DiscardFrame ==
  [][DiscardStep =>
       /\ UNCHANGED <<wq, nextSeq, streams, dlq, dlqExists, published>>
       /\ IF lastCall'.op = "discard.return" /\ lastCall'.ret = "ok"
          THEN \E k \in LiveSeqs :
                 /\ dlq[k].id = lastCall'.id
                 /\ dlqDeleted' = dlqDeleted \cup {k}
          ELSE dlqDeleted' = dlqDeleted]_vars

\* a discard has returned and deleted its record while the record of another
\* id is stored and a work queue exists
C31_Witness ==
  /\ lastCall.op = "discard.return" /\ lastCall.ret = "ok"
  /\ \E k \in dlqDeleted : dlq[k].id = lastCall.id
  /\ \E k \in LiveSeqs : dlq[k].id # lastCall.id
  /\ DOMAIN wq # {}

(***************************************************************************)
(* Registry entries over time                                              *)
(***************************************************************************)
\* C32: for a given GUID, registeredAt is written once at the first
\* registration and never changes afterwards, across heartbeats, presence
\* updates, deregistration and a re-registration that reuses the GUID.
C32_RegisteredAtOnce ==
  [][\A g \in DOMAIN registry :
       /\ g \in DOMAIN registry'
       /\ registry'[g].registeredAt = registry[g].registeredAt]_vars

\* The messages of work item id still in its capability's work queue when
\* every worker reports its claims: one per publish (publishWorkItem adds a
\* message), less one per accepted recordClaim (claimWorkItem acks the message
\* it returns, which removes it from the work-queue stream).
StillInQueue(id) == Len(published[id]) - assignments[id].attempts

\* C33: at any time the work queue holds at most one not-yet-acked message of
\* a given Coordinator work item id: the Coordinator never republishes an item
\* while an earlier publish of the same id is still in the queue.
C33_OneMessagePerId ==
  \A id \in DOMAIN assignments : StillInQueue(id) <= 1

(***************************************************************************)
(* The Coordinator under fair scheduling: time passes, a timer that has    *)
(* run out runs its callback (setTimeout, coordinator.ts:458), and the     *)
(* broker answers every request it was sent, with a result or an error.    *)
(* The calls of workers and submitters are under no obligation.            *)
(***************************************************************************)
brokerAnswers ==
  \E op \in BagToSet(ops) :
    \/ submitWorkStreamReady(op)
    \/ submitWorkPublished(op)
    \/ recordErrorRepublished(op)
    \/ recordErrorDeadLettered(op)
    \/ brokerRaises(op)

SpecCoordLive ==
  /\ SpecCoord
  /\ WF_vars(Tick)
  /\ \A h \in Handles : WF_vars(timeoutCallback(h))
  /\ WF_vars(brokerAnswers)

\* a caller reports on an Assignment
WorkerReports ==
  lastCall'.op \in {"recordClaim", "recordProgress", "recordCompletion",
                    "recordError"}

\* the model stops republishing at MaxPublish messages per id
PublishCapReached(id) ==
  Len(published[id]) + RetriesInFlight(id) >= MaxPublish

\* the Assignment is held by a worker
HeldByWorker(id) ==
  IF id \in DOMAIN assignments
  THEN StatusOf(id) \in {"assigned", "in-progress"} ELSE FALSE

\* C34: as long as armed timers eventually fire, every Assignment eventually
\* reaches completed or failed; in particular, once its workers stop
\* reporting, an Assignment does not stay assigned or in-progress forever.
C34_NotHeldForever ==
  \A id \in Items :
    (<>[][~WorkerReports]_vars)
      => (HeldByWorker(id)
            ~> (~HeldByWorker(id) \/ PublishCapReached(id) \/ shutdownCalled))

\* the retry calls that have republished their item and not yet returned
RetriesPublished ==
  {o \in BagToSet(ops) : o.kind = "dlq.retry" /\ o.stage = "delete"}

\* C35: two concurrent retry(id) calls for the same DLQ record republish the
\* item at most once in total: no two calls have both published the item of
\* one record.
C35_ConcurrentRetryPublishesOnce ==
  \A o1, o2 \in RetriesPublished : o1.seq = o2.seq => o1 = o2

\* C36: whenever moveToDeadLetter(item, reason) returns successfully, a DLQ
\* record with item.id exists (get(item.id) is not null), also when the same
\* id had been moved to the DLQ before and was retried or discarded since.
C36_MovedItemIsStored ==
  (lastCall.op = "moveToDeadLetter" /\ lastCall.ret = "ok")
    => getDeadLetterItem(lastCall.id) # <<>>

\* timeoutCheckers holds a timer for the work item that has not fired and was
\* not cleared
TimerArmed(id) ==
  IF id \in DOMAIN timeoutCheckers
  THEN timers[timeoutCheckers[id]].armed ELSE FALSE

\* C37: whenever no Coordinator operation is in flight and shutdown has not
\* been called, every Assignment with status pending or assigned has an
\* armed timeout timer, also after a queue-creation or publish call raised
\* inside submitWork or recordError.
C37_WaitingHasTimer ==
  (ops = EmptyBag /\ NotShutDown)
    => \A id \in DOMAIN assignments :
         StatusOf(id) \in {"pending", "assigned"} => TimerArmed(id)

\* a retry(id) call raised an error: the scan found nothing, a broker call
\* failed, or the record was gone when the call came to delete it
RetryRaised ==
  \/ lastCall.op = "retry" /\ lastCall.ret = "not found"
  \/ lastCall.op = "dlq.raise" /\ lastCall.kind = "dlq.retry"
  \/ lastCall.op = "retry.return" /\ lastCall.ret = "failed"

\* C38: if retry(id) raises an error, nothing was moved: the call that
\* raises has not published the item to any work queue.
C38_FailedRetryMovesNothing ==
  [][\A op \in BagToSet(ops) :
       (op.kind = "dlq.retry" /\ ops' = Resume(op) /\ RetryRaised')
         => op.stage # "delete"]_vars

\* session s, registered under another GUID whose heartbeat only s can be
\* running, completes a register_agent call
Reregisters(s) ==
  /\ sess[s].pc.op = "register"
  /\ sess'[s].pc = Idle
  /\ sess[s].agentGuid \notin {NoGuid, sess'[s].agentGuid}
  /\ sess[s].agentGuid \in DOMAIN registry
  /\ \A t \in Sessions \ {s} : sess[t].agentGuid # sess[s].agentGuid

\* C39: a session owns at most one registry entry whose status is not
\* offline: when a registered session registers again, the entry of its
\* earlier GUID does not remain online or busy without a heartbeat.
C39_OneLiveEntryPerSession ==
  [][\A s \in Sessions :
       Reregisters(s) => registry'[sess[s].agentGuid].status = "offline"]_vars

(***************************************************************************)
(* deregister_agent when the registry fails: getRegistryEntry or           *)
(* putRegistryEntry raises, the handler returns an error result.           *)
(***************************************************************************)
\* an error return that also clears the session's identity
deregisterRaises_clearsSession(s) ==
  /\ sess[s].pc.op = "deregister"
  /\ sess' = [sess EXCEPT ![s].agentGuid = NoGuid, ![s].pc = Idle]
  /\ lastCall' = [op |-> "deregister.error", id |-> sess[s].agentGuid,
                  stage |-> sess[s].pc.stage]
  /\ UNCHANGED <<clock, registry, inbox, deregistered>>
  /\ AgentFrame

\* the catch blocks of the read and of the write: log, return isError
deregisterRaises(s) ==
  /\ sess[s].pc.op = "deregister"
  /\ sess' = [sess EXCEPT ![s].pc = Idle]
  /\ lastCall' = [op |-> "deregister.error", id |-> sess[s].agentGuid,
                  stage |-> sess[s].pc.stage]
  /\ UNCHANGED <<clock, registry, inbox, deregistered>>
  /\ AgentFrame

DeregisterNext ==
  \/ RegistryNext
  \/ \E s \in Sessions : deregisterRaises(s)

SpecDeregister == AgentInit /\ [][DeregisterNext]_vars

\* session s takes the step of deregister_agent that returns an error
DeregisterFails(s) ==
  /\ sess[s].pc.op = "deregister"
  /\ sess'[s].pc = Idle
  /\ lastCall'.op = "deregister.error"

\* C40 as stated: if deregistration returns an error because the registry
\* read or write failed, the session is unchanged: the agent is still
\* registered and its heartbeat task and inbox subscription are still
\* running.
C40_FailureLeavesSessionRunning ==
  [][\A s \in Sessions :
       DeregisterFails(s)
         => /\ sess'[s].agentGuid = sess[s].agentGuid
            /\ sess'[s].heartbeat = sess[s].agentGuid
            /\ sess'[s].inboxSub = sess[s].agentGuid]_vars

\* C40 (amended): if deregistration returns an error because the registry
\* read or write failed, the agent is still registered in its session state
\* and its registry entry is as it was, but its heartbeat task and its inbox
\* subscription have been stopped and stay stopped.
C40_FailureKeepsIdentityOnly ==
  [][\A s \in Sessions :
       DeregisterFails(s)
         => /\ sess'[s].agentGuid = sess[s].agentGuid
            /\ sess'[s].agentGuid # NoGuid
            /\ sess'[s].heartbeat = NoGuid
            /\ sess'[s].inboxSub = NoGuid
            /\ registry' = registry]_vars

C40_Witness ==
  /\ lastCall.op = "deregister.error"
  /\ "stage" \in DOMAIN lastCall
  /\ lastCall.stage = "put"
  /\ \E s \in Sessions :
       /\ sess[s].pc = Idle
       /\ sess[s].agentGuid = lastCall.id
       /\ sess[s].heartbeat = NoGuid
       /\ registry[lastCall.id].status # "offline"
====
